---- MODULE Spec2Model ----
(***************************************************************************)
(* A model of foamgraph's pyqtgraph back end:                              *)
(*   - LRUCache (graphicsItems/GraphicsItem.py), specification SpecLRU;    *)
(*   - the mouse event dispatch of GraphicsScene                           *)
(*     (GraphicsScene/GraphicsScene.py), specifications Spec,              *)
(*     SpecNoRaise and SpecGesture;                                        *)
(*   - the pixel vectors of GraphicsItem and their two caches              *)
(*     (graphicsItems/GraphicsItem.py), specification SpecPixel;           *)
(*   - mapRectFromView and its cache of inverted transforms,               *)
(*     specification SpecMapRect;                                          *)
(*   - the view resolution of GraphicsItem (getViewBox, _updateView),      *)
(*     specification SpecView;                                             *)
(*   - GraphicsScene.addParentContextMenus, specification SpecMenu;        *)
(*   - PlotArea (graphics_widgets.py), specification SpecPlot.             *)
(***************************************************************************)
EXTENDS Integers, Sequences, FiniteSets, TLC

None == "None"

\* None where the other values are records (an event object): the empty
\* sequence, and <<e>> for the event e.
NoEvent == << >>

Min(a, b) == IF a < b THEN a ELSE b

Max(a, b) == IF a < b THEN b ELSE a

(***************************************************************************)
(* LRUCache                                                                *)
(***************************************************************************)

\* Largest maxSize / resizeTo argument tried at construction.
MaxSizeLimit == 3

\* Cap on the access-time counter (_nextTime): the number of accesses modelled.
MaxLRUTime == 4

LRUKeys == {"k1", "k2", "k3", "k4"}

\* The cached values are opaque to the cache: one stands for all.
LRUValues == {"v"}

\* Arguments passed to LRUCache(maxSize, resizeTo): -1 stands for the negatives.
LRUSizes == (-1) .. MaxSizeLimit

VARIABLES
    lruState,     \* "none" before construction, "ok", or "rejected" (assert failed)
    maxSize,      \* self.maxSize
    resizeTo,     \* self.resizeTo
    lruDict,      \* self._dict: key -> [value, time] (item[1], item[2])
    lruNextTime,  \* next value of self._nextTime()
    lruLastRead,  \* observer: key -> access time of its last read, -1 if none
    lruPasses,    \* observer: number of eviction passes (_resizeTo calls) so far
    lruPure,      \* observer: every operation so far inserted a new key
    lruOp         \* observer: the last operation and what it did

lruVars == <<lruState, maxSize, resizeTo, lruDict, lruNextTime,
             lruLastRead, lruPasses, lruPure, lruOp>>

NoLruOp == [op |-> "none", key |-> None, pass |-> FALSE, evicted |-> {},
            before |-> {}, kept |-> -1, error |-> FALSE]

LRUInit ==
    /\ lruState = "none"
    /\ maxSize = 0
    /\ resizeTo = 0
    /\ lruDict = << >>
    /\ lruNextTime = 0
    /\ lruLastRead = [k \in LRUKeys |-> -1]
    /\ lruPasses = 0
    /\ lruPure = TRUE
    /\ lruOp = NoLruOp

\* len(self._dict)
LRULen(d) == Cardinality(DOMAIN d)

\* The key of d with the smallest access time (times are unique).
OldestKey(d) == CHOOSE k \in DOMAIN d : \A j \in DOMAIN d : d[k].time <= d[j].time

\* The keys of the first n items of sorted(d.values(), key=time).
RECURSIVE OldestKeys(_, _)
OldestKeys(d, n) ==
    IF n <= 0 \/ DOMAIN d = {} THEN {}
    ELSE LET k == OldestKey(d)
         IN {k} \cup OldestKeys([j \in DOMAIN d \ {k} |-> d[j]], n - 1)

\* How many items the Python slice seq[:r] takes from a list of length len.
SliceLen(len, r) == IF r >= 0 THEN Min(r, len) ELSE Max(len + r, 0)

\* _resizeTo: the keys that sorted(...)[:self.resizeTo] selects for deletion.
ResizeVictims(d, r) == OldestKeys(d, SliceLen(LRULen(d), r))

\* A bug: a read that returns the value without touching the access time.
GetItemNoTouch(d, key, t) == d

\* __getitem__ on a present key: item[2] = self._nextTime().
GetItemTouch(d, key, t) == [d EXCEPT ![key].time = t]

\* A constructor without the assertion.
LRUConstructUnchecked(m, r) ==
    /\ lruState = "none"
    /\ lruState' = "ok"
    /\ maxSize' = m
    /\ resizeTo' = r
    /\ UNCHANGED <<lruDict, lruNextTime, lruLastRead, lruPasses, lruPure, lruOp>>

\* LRUCache.__init__: assert resizeTo < maxSize.
LRUConstruct(m, r) ==
    /\ lruState = "none"
    /\ lruState' = IF r < m THEN "ok" ELSE "rejected"
    /\ maxSize' = IF r < m THEN m ELSE maxSize
    /\ resizeTo' = IF r < m THEN r ELSE resizeTo
    /\ UNCHANGED <<lruDict, lruNextTime, lruLastRead, lruPasses, lruPure, lruOp>>

\* LRUCache.__setitem__
LRUSetItem(key, value) ==
    /\ lruState = "ok"
    /\ lruNextTime < MaxLRUTime
    /\ LET present == key \in DOMAIN lruDict
           pass    == ~present /\ LRULen(lruDict) + 1 > maxSize
           victims == IF pass THEN ResizeVictims(lruDict, resizeTo) ELSE {}
           rest    == [k \in DOMAIN lruDict \ victims |-> lruDict[k]]
       IN /\ lruDict' = [k \in DOMAIN rest \cup {key} |->
                           IF k = key THEN [value |-> value, time |-> lruNextTime]
                           ELSE rest[k]]
          /\ lruLastRead' = [k \in LRUKeys |->
                               IF k \in victims \/ (k = key /\ ~present)
                               THEN -1 ELSE lruLastRead[k]]
          /\ lruPasses' = IF pass THEN lruPasses + 1 ELSE lruPasses
          /\ lruPure' = (lruPure /\ ~present)
          /\ lruOp' = [op |-> "set", key |-> key, pass |-> pass, evicted |-> victims,
                       before |-> DOMAIN lruDict,
                       kept |-> IF pass THEN LRULen(rest) ELSE -1, error |-> FALSE]
    /\ lruNextTime' = lruNextTime + 1
    /\ UNCHANGED <<lruState, maxSize, resizeTo>>

\* LRUCache.__getitem__ (via = "getitem") and LRUCache.get (via = "get"), which
\* calls it and turns the KeyError of a missing key into the default.
LRURead(via, key) ==
    /\ lruState = "ok"
    /\ lruNextTime < MaxLRUTime
    /\ IF key \in DOMAIN lruDict
       THEN /\ lruDict' = GetItemTouch(lruDict, key, lruNextTime)
            /\ lruNextTime' = lruNextTime + 1
            /\ lruLastRead' = [lruLastRead EXCEPT ![key] = lruNextTime]
       ELSE UNCHANGED <<lruDict, lruNextTime, lruLastRead>>
    /\ lruPure' = FALSE
    /\ lruOp' = [NoLruOp EXCEPT !.op = via, !.key = key,
                                !.error = (via = "getitem" /\ key \notin DOMAIN lruDict)]
    /\ UNCHANGED <<lruState, maxSize, resizeTo, lruPasses>>

\* LRUCache.__delitem__
LRUDelItem(key) ==
    /\ lruState = "ok"
    /\ lruDict' = [k \in DOMAIN lruDict \ {key} |-> lruDict[k]]
    /\ lruLastRead' = [lruLastRead EXCEPT ![key] = -1]
    /\ lruPure' = FALSE
    /\ lruOp' = [NoLruOp EXCEPT !.op = "del", !.key = key,
                                !.error = (key \notin DOMAIN lruDict)]
    /\ UNCHANGED <<lruState, maxSize, resizeTo, lruNextTime, lruPasses>>

\* LRUCache.clear
LRUClear ==
    /\ lruState = "ok"
    /\ lruDict' = << >>
    /\ lruLastRead' = [k \in LRUKeys |-> -1]
    /\ lruPure' = FALSE
    /\ lruOp' = [NoLruOp EXCEPT !.op = "clear"]
    /\ UNCHANGED <<lruState, maxSize, resizeTo, lruNextTime, lruPasses>>

LRUNext ==
    \/ \E m \in LRUSizes, r \in LRUSizes : LRUConstruct(m, r)
    \/ \E k \in LRUKeys, v \in LRUValues : LRUSetItem(k, v)
    \/ \E k \in LRUKeys : LRURead("getitem", k)
    \/ \E k \in LRUKeys : LRURead("get", k)
    \/ \E k \in LRUKeys : LRUDelItem(k)
    \/ LRUClear



(***************************************************************************)
(* GraphicsItem: deviceTransform, pixelVectors and pixelLength             *)
(*                                                                         *)
(* One item. A transform is the tuple <<m11, m12, m21, m22>> of its scale  *)
(* and shear coefficients (pixelVectors sets the others to those of the    *)
(* identity), a vector is <<x, y>>. Vectors mapped back to the item are    *)
(* counted in half units of the item's coordinates.                        *)
(***************************************************************************)

\* The transforms from the item to the scene that the application sets: the
\* identity, a zoom by 2, the null transform of a widget not yet displayed and
\* a transform that flattens the x axis.
Transforms == {<<1, 0, 0, 1>>, <<2, 0, 0, 2>>, <<0, 0, 0, 0>>, <<0, 0, 0, 1>>}

\* The view's viewportTransform().
viewportTransform == <<1, 0, 0, 1>>

\* self._exportOpts.get('resolutionScale', 1.0) of an export without the option
resolutionScale == 1

\* None as a transform, as a direction, as export options (False) and as the
\* content of a cache slot: the empty sequence, and <<x>> for the value x.
NoTransform == << >>

NoDirection == << >>

NoOpts == << >>

\* The direction arguments of the calls: None, a zero-length vector and the
\* two axes.
Directions == {NoDirection, <<0, 0>>, <<1, 0>>, <<0, 1>>}

\* The key sets of the dictionaries passed to setExportMode.
ExportOpts == {{}, {"painter"}}

VARIABLES
    sceneTransform,          \* host: the item's sceneTransform()
    viewWidget,              \* host: whether getViewWidget() returns a view
    exportOpts,              \* self._exportOpts
    pixelVectorCache,        \* self._pixelVectorCache: [key, value]
    pixelVectorGlobalCache,  \* GraphicsItem._pixelVectorGlobalCache: its entries
    pvCall                   \* observer: the last call, what deviceTransform
                             \*           gave it, its outcome and what answered

pixelVars == <<sceneTransform, viewWidget, exportOpts, pixelVectorCache,
               pixelVectorGlobalCache, pvCall>>

\* The outcomes of a call: a value, the no-value result ((None, None) or
\* None), or an exception.
Value(v) == [kind |-> "value", v |-> v]

NoValue == [kind |-> "none", v |-> << >>]

Raised == [kind |-> "raise", v |-> << >>]

\* What the first slot of the per-item cache holds: None, a key tuple or a
\* QTransform object.
SlotNone == [kind |-> "None", coefs |-> << >>]

SlotKey(key) == [kind |-> "key", coefs |-> key]

SlotTransform(dt) == [kind |-> "transform", coefs |-> dt]

NoCall == [fn |-> "none", direction |-> NoDirection, ortho |-> FALSE,
           dt |-> NoTransform, result |-> NoValue, by |-> "none"]

PixelInit ==
    /\ sceneTransform = <<1, 0, 0, 1>>
    /\ viewWidget = FALSE
    /\ exportOpts = NoOpts
    /\ pixelVectorCache = [key |-> SlotNone, value |-> << >>]
    /\ pixelVectorGlobalCache = {}
    /\ pvCall = NoCall

Abs(x) == IF x < 0 THEN 0 - x ELSE x

\* QTransform.determinant()
Det(m) == m[1] * m[4] - m[2] * m[3]

\* QTransform a * b
Compose(a, b) ==
    <<a[1] * b[1] + a[2] * b[3], a[1] * b[2] + a[2] * b[4],
      a[3] * b[1] + a[4] * b[3], a[3] * b[2] + a[4] * b[4]>>

\* QTransform.map of a line from the origin to v: the line's far end.
Map(m, v) == <<m[1] * v[1] + m[3] * v[2], m[2] * v[1] + m[4] * v[2]>>

\* QPointF.manhattanLength()
ManhattanLength(v) == Abs(v[1]) + Abs(v[2])

\* QLineF.length() / Point.length() of a vector (the vectors of the model are
\* parallel to an axis)
VectorLength(v) ==
    CHOOSE r \in 0 .. ManhattanLength(v) : r * r = v[1] * v[1] + v[2] * v[2]

\* QLineF.unitVector()
UnitVector(v) == <<v[1] \div VectorLength(v), v[2] \div VectorLength(v)>>

\* QLineF.normalVector()
NormalVector(v) == <<v[2], 0 - v[1]>>

\* functions.invertQTransform (functions.py is not among the sources): the
\* inverse, in half units, or no transform where the call raises because the
\* transform is not invertible.
invertQTransform(m) ==
    IF Det(m) = 0 THEN NoTransform
    ELSE <<<<(2 * m[4]) \div Det(m), (0 - 2 * m[2]) \div Det(m),
             (0 - 2 * m[3]) \div Det(m), (2 * m[1]) \div Det(m)>>>>

\* GraphicsItem.deviceTransform(), called without a viewportTransform.
deviceTransform ==
    IF exportOpts # NoOpts /\ "painter" \in exportOpts[1]
    THEN <<Compose(sceneTransform, <<resolutionScale, 0, 0, resolutionScale>>)>>
    ELSE IF ~viewWidget THEN NoTransform
    ELSE LET dt == Compose(sceneTransform, viewportTransform)
         IN IF Det(dt) = 0 THEN NoTransform ELSE <<dt>>

\* _pixelVectorGlobalCache.get(key, None): the entries stored under key (the
\* shared cache holds up to 100 entries, more than the model has keys).
GlobalGet(key) == {e \in pixelVectorGlobalCache : e.key = key}

\* GraphicsItem.pixelVectors(direction): its outcome, the two caches after
\* the call, what answered it and what deviceTransform returned.
pixelVectors(direction) ==
    LET got == deviceTransform
        st0 == [result |-> NoValue, cache |-> pixelVectorCache,
                global |-> pixelVectorGlobalCache, by |-> "none", dt |-> got]
    IN IF got = NoTransform THEN st0
       ELSE
         LET dt == got[1]
             dir == IF direction = NoDirection THEN <<1, 0>> ELSE direction
             key == <<dt[1], dt[3], dt[2], dt[4], dir[1], dir[2]>>
             hit == GlobalGet(key)
             viewDir == Map(dt, dir)
             normView == UnitVector(viewDir)
             normOrtho == NormalVector(normView)
             dti == invertQTransform(dt)
             pv == <<Map(dti[1], normView), Map(dti[1], normOrtho)>>
         IN IF direction # NoDirection /\ ManhattanLength(direction) = 0
            THEN [st0 EXCEPT !.result = Raised]
            ELSE IF SlotKey(key) = pixelVectorCache.key
            THEN [st0 EXCEPT !.result = Value(pixelVectorCache.value), !.by = "local"]
            ELSE IF hit # {}
            THEN LET e == CHOOSE e \in hit : TRUE
                 IN [st0 EXCEPT !.result = Value(e.value), !.by = "global",
                                !.cache = [key |-> SlotKey(key), value |-> e.value]]
            ELSE IF VectorLength(viewDir) = 0 THEN st0
            ELSE IF dti = NoTransform THEN [st0 EXCEPT !.result = Raised]
            ELSE [st0 EXCEPT !.result = Value(pv), !.by = "computed",
                             !.cache = [key |-> SlotTransform(dt), value |-> pv],
                             !.global = @ \cup {[key |-> key, value |-> pv]}]

\* GraphicsItem.pixelLength(direction, ortho)
pixelLength(direction, ortho) ==
    LET r == pixelVectors(direction)
    IN IF r.result.kind = "value"
       THEN [r EXCEPT !.result =
                Value(<<VectorLength(r.result.v[IF ortho THEN 2 ELSE 1])>>)]
       ELSE r

\* The application calls item.pixelVectors(direction).
CallPixelVectors ==
    \E direction \in Directions :
        LET r == pixelVectors(direction)
        IN /\ pixelVectorCache' = r.cache
           /\ pixelVectorGlobalCache' = r.global
           /\ pvCall' = [fn |-> "pixelVectors", direction |-> direction, ortho |-> FALSE,
                         dt |-> r.dt, result |-> r.result, by |-> r.by]
           /\ UNCHANGED <<sceneTransform, viewWidget, exportOpts>>

\* The application calls item.pixelLength(direction, ortho).
CallPixelLength ==
    \E direction \in Directions \ {NoDirection}, ortho \in BOOLEAN :
        LET r == pixelLength(direction, ortho)
        IN /\ pixelVectorCache' = r.cache
           /\ pixelVectorGlobalCache' = r.global
           /\ pvCall' = [fn |-> "pixelLength", direction |-> direction, ortho |-> ortho,
                         dt |-> r.dt, result |-> r.result, by |-> r.by]
           /\ UNCHANGED <<sceneTransform, viewWidget, exportOpts>>

\* The host: the item or one of its ancestors is given another transform.
SetTransform ==
    \E m \in Transforms \ {sceneTransform} :
        /\ sceneTransform' = m
        /\ pvCall' = NoCall
        /\ UNCHANGED <<viewWidget, exportOpts, pixelVectorCache, pixelVectorGlobalCache>>

\* The host: the item's scene gets its view, or the view is deleted.
ViewChange ==
    /\ viewWidget' = ~viewWidget
    /\ pvCall' = NoCall
    /\ UNCHANGED <<sceneTransform, exportOpts, pixelVectorCache, pixelVectorGlobalCache>>

\* GraphicsItem.setExportMode(export, opts)
setExportMode(export, opts) ==
    /\ exportOpts' = IF export THEN <<opts>> ELSE NoOpts
    /\ exportOpts' # exportOpts
    /\ pvCall' = NoCall
    /\ UNCHANGED <<sceneTransform, viewWidget, pixelVectorCache, pixelVectorGlobalCache>>

SetExportMode == \E export \in BOOLEAN, opts \in ExportOpts : setExportMode(export, opts)

PixelNext ==
    \/ CallPixelVectors
    \/ CallPixelLength
    \/ SetTransform
    \/ ViewChange
    \/ SetExportMode

(***************************************************************************)
(* GraphicsItem.mapRectFromView and its shared cache of inverses           *)
(*                                                                         *)
(* The shared cache _mapRectFromViewGlobalCache is the LRUCache modelled   *)
(* above; a view transform is named by its key k (the tuple of its nine    *)
(* coefficients), the keys of LRUKeys standing for distinct transforms.    *)
(***************************************************************************)

VARIABLES
    inversions,   \* observer: key -> number of fn.invertQTransform calls made
                  \*           by mapRectFromView for that transform
    mapCall       \* observer: the last mapRectFromView call: the key of the
                  \*           view transform (None: no view), whether it
                  \*           inverted, and whether it returned a rect

mapVars == <<inversions, mapCall>>

NoMapCall == [key |-> None, inverted |-> FALSE, returned |-> FALSE]

MapRectInit ==
    /\ inversions = [k \in LRUKeys |-> 0]
    /\ mapCall = NoMapCall

\* A bug: the lookup in the cache always fails.
CacheNeverHits(d, k) == FALSE

\* "try: inv_vt = cache[k] / except KeyError": whether the lookup succeeds.
CacheHit(d, k) == k \in DOMAIN d

\* GraphicsItem.mapRectFromView(obj), viewTransform() being the transform of
\* key k.
mapRectFromView(k) ==
    IF CacheHit(lruDict, k)
    THEN /\ LRURead("getitem", k)
         /\ inversions' = inversions
         /\ mapCall' = [key |-> k, inverted |-> FALSE, returned |-> TRUE]
    ELSE /\ LRUSetItem(k, "v")
         /\ inversions' = [inversions EXCEPT ![k] = @ + 1]
         /\ mapCall' = [key |-> k, inverted |-> TRUE, returned |-> TRUE]

\* GraphicsItem.mapRectFromView(obj) while viewTransform() is None.
mapRectFromNoView ==
    /\ lruState = "ok"
    /\ mapCall # [NoMapCall EXCEPT !.key = "no view"]
    /\ mapCall' = [NoMapCall EXCEPT !.key = "no view"]
    /\ UNCHANGED <<lruVars, inversions>>

\* "_mapRectFromViewGlobalCache = LRUCache(100, 70)", with the sizes of the
\* model: 1 <= resizeTo < maxSize.
MapRectCache ==
    /\ \E m \in LRUSizes, r \in LRUSizes : 1 <= r /\ r < m /\ LRUConstruct(m, r)
    /\ UNCHANGED mapVars

MapRectFromView == \E k \in LRUKeys : mapRectFromView(k)

MapRectNext ==
    \/ MapRectCache
    \/ MapRectFromView
    \/ mapRectFromNoView

\* The variables of the sections above that the mouse dispatch leaves alone.
(***************************************************************************)
(* GraphicsItem: view resolution                                           *)
(*                                                                         *)
(* A forest of graphics items.  vb1 and vb2 implement the ViewBox          *)
(* capability, g1 and g2 are plain GraphicsItems and q is a bare Qt item that *)
(* is no GraphicsItem (no caches, no implements()).  Every item is         *)
(* constructed without parent and outside the scene; the scene has either  *)
(* no view or one view widget.  A RuntimeError of parentItem() on an item  *)
(* that Qt has deleted and a view that died behind its weak reference are  *)
(* not modelled: no item or view is destroyed here.                        *)
(***************************************************************************)
ViewBoxes == {"vb1", "vb2"}
PlainItems == {"g1", "g2"}
GraphicsItems == ViewBoxes \cup PlainItems
BareItems == {"q"}
ViewItems == GraphicsItems \cup BareItems
ViewWidget == "widget"
MaxMoves == 5

VARIABLES
    parentOf,        \* item -> parentItem() or None
    itemScene,       \* item -> TRUE iff scene() is the scene
    sceneViews,      \* len(scene.views())
    viewBox,         \* GraphicsItem -> _viewBox (the referent) or None
    viewWidgetRef,   \* GraphicsItem -> _viewWidget (the referent) or None
    connectedView,   \* GraphicsItem -> _connectedView (the referent) or None
    viewCall,        \* the last operation and the items whose _updateView ran
    moves            \* number of operations so far

viewVars == <<parentOf, itemScene, sceneViews, viewBox, viewWidgetRef,
              connectedView, viewCall, moves>>

NoViewCall == [op |-> None, item |-> None, updated |-> {}]

ViewInit ==
    /\ parentOf = [i \in ViewItems |-> None]
    /\ itemScene = [i \in ViewItems |-> FALSE]
    /\ sceneViews \in {0, 1}
    /\ viewBox = [i \in GraphicsItems |-> None]
    /\ viewWidgetRef = [i \in GraphicsItems |-> None]
    /\ connectedView = [i \in GraphicsItems |-> None]
    /\ viewCall = NoViewCall
    /\ moves = 0

childItems(par, i) == {c \in ViewItems : par[c] = i}

RECURSIVE AncestorsIn(_, _)
AncestorsIn(par, i) ==
    IF par[i] = None THEN {} ELSE {par[i]} \cup AncestorsIn(par, par[i])

Descendants(par, i) == {d \in ViewItems : i \in AncestorsIn(par, d)}

implements(p, interface) == interface = "ViewBox" /\ p \in ViewBoxes

\* The loop of getViewBox: the nearest proper ancestor that implements
\* ViewBox, or None at the top of the chain.
RECURSIVE NearestViewBox(_, _)
NearestViewBox(par, i) ==
    LET p == par[i]
    IN  IF p = None THEN None
        ELSE IF implements(p, "ViewBox") THEN p
        ELSE NearestViewBox(par, p)

\* The view state the methods read and write.
ViewState == [vb |-> viewBox, vw |-> viewWidgetRef, cv |-> connectedView,
              updated |-> {}]

KeepViewBox(s, i) == s
forgetViewBox(s, i) == [s EXCEPT !.vb[i] = None]
forgetViewWidget(s, i) == [s EXCEPT !.vw[i] = None]

\* getViewWidget and getViewBox return a value and may fill a cache: the
\* result is the pair of the new state and the value.
getViewWidget(s, scn, i) ==
    IF s.vw[i] = None
    THEN IF ~scn[i] THEN [s |-> s, v |-> None]
         ELSE IF sceneViews < 1 THEN [s |-> s, v |-> None]
         ELSE [s |-> [s EXCEPT !.vw[i] = ViewWidget], v |-> ViewWidget]
    ELSE [s |-> s, v |-> s.vw[i]]

getViewBox(s, par, scn, i) ==
    IF s.vb[i] = None
    THEN LET p == NearestViewBox(par, i)
         IN  IF p = None
             THEN LET w == getViewWidget(s, scn, i)
                  IN  IF w.v = None THEN [s |-> w.s, v |-> None]
                      ELSE [s |-> [w.s EXCEPT !.vb[i] = w.v], v |-> w.v]
             ELSE [s |-> [s EXCEPT !.vb[i] = p], v |-> p]
    ELSE [s |-> s, v |-> s.vb[i]]

RECURSIVE updateView(_, _, _, _)
RECURSIVE replaceView(_, _, _, _, _)

\* _updateView.  The signal connections are the value of _connectedView;
\* viewRangeChanged, viewTransformChanged and viewChanged do nothing in
\* GraphicsItem.
updateView(s, par, scn, i) ==
    LET s0 == [s EXCEPT !.updated = @ \cup {i}]
        s1 == forgetViewWidget(forgetViewBox(s0, i), i)
        r == getViewBox(s1, par, scn, i)
        view == r.v
        oldView == s.cv[i]
    IN  IF view = oldView THEN r.s
        ELSE replaceView([r.s EXCEPT !.cv[i] = view], par, scn, oldView,
                         childItems(par, i))

\* _replaceView over the children still to visit.  The iterations touch
\* disjoint subtrees, so the order of childItems() does not matter.
replaceView(s, par, scn, oldView, children) ==
    IF children = {} THEN s
    ELSE LET child == CHOOSE c \in children : TRUE
             s1 == IF child \in GraphicsItems
                   THEN LET r == getViewBox(s, par, scn, child)
                        IN  IF r.v = oldView
                            THEN updateView(r.s, par, scn, child)
                            ELSE r.s
                   ELSE replaceView(s, par, scn, oldView,
                                    childItems(par, child))
         IN  replaceView(s1, par, scn, oldView, children \ {child})

parentChanged(s, par, scn, i) == updateView(s, par, scn, i)

\* GraphicsObject.itemChange, which is not part of the sources: a change of
\* the parent or of the scene of a GraphicsItem calls parentChanged.
itemChange(s, par, scn, i) ==
    IF i \in GraphicsItems THEN parentChanged(s, par, scn, i) ELSE s

StoreView(s, op, i) ==
    /\ viewBox' = s.vb
    /\ viewWidgetRef' = s.vw
    /\ connectedView' = s.cv
    /\ viewCall' = [op |-> op, item |-> i, updated |-> s.updated]
    /\ moves' = moves + 1

\* scene.addItem(i) for an item that stands alone.
SceneAddItem ==
    \E i \in ViewItems :
       /\ moves < MaxMoves
       /\ ~itemScene[i]
       /\ parentOf[i] = None
       /\ childItems(parentOf, i) = {}
       /\ itemScene' = [itemScene EXCEPT ![i] = TRUE]
       /\ StoreView(itemChange(ViewState, parentOf, itemScene', i),
                    "addItem", i)
       /\ UNCHANGED <<parentOf, sceneViews>>

\* setParentItem(i, p) between items of one scene (or of none), so that the
\* scene of no item changes.
setParentItem(i, p) ==
    /\ moves < MaxMoves
    /\ p # parentOf[i]
    /\ p # i
    /\ p # None => /\ p \notin Descendants(parentOf, i)
                   /\ itemScene[p] = itemScene[i]
    /\ parentOf' = [parentOf EXCEPT ![i] = p]
    /\ StoreView(itemChange(ViewState, parentOf', itemScene, i),
                 "setParentItem", i)
    /\ UNCHANGED <<itemScene, sceneViews>>

SetParentItem == \E i \in ViewItems, p \in ViewItems \cup {None} : setParentItem(i, p)

\* A direct call of getViewBox, as made by the mapping and pixel methods.
CallGetViewBox ==
    \E i \in GraphicsItems :
       /\ moves < MaxMoves
       /\ LET r == getViewBox(ViewState, parentOf, itemScene, i)
          IN  /\ r.s.vb # viewBox
              /\ viewBox' = r.s.vb
              /\ viewWidgetRef' = r.s.vw
       /\ viewCall' = [op |-> "getViewBox", item |-> i, updated |-> {}]
       /\ moves' = moves + 1
       /\ UNCHANGED <<parentOf, itemScene, sceneViews, connectedView>>

ViewNext == SceneAddItem \/ SetParentItem \/ CallGetViewBox

(***************************************************************************)
(* GraphicsScene: context menus of the ancestors                           *)
(*                                                                         *)
(* addParentContextMenus is a function of the menu the item made, of what  *)
(* the ancestors of the item return from getContextMenus and of the        *)
(* scene's own contextMenu.  An ancestor either has no getContextMenus or  *)
(* returns one object or a list of objects.  The objects are named: two    *)
(* QMenus, a QAction, None, the integer 0 and a string.                    *)
(***************************************************************************)
QMenus == {"menu1", "menu2"}
QActions == {"action"}
OtherObjects == {"None", "zero", "text"}
MenuObjects == QMenus \cup QActions \cup OtherObjects
ListObjects == {"menu1", "action", "text"}
OwnMenus == {<< >>, <<"own1">>, <<"own1", "own2">>}
Separator == "separator"
MaxMenuList == 2
MaxAncestors == 2

\* What getContextMenus of one ancestor returns.
NoGetContextMenus == [has |-> FALSE, isList |-> FALSE, objs |-> << >>]
Single(o) == [has |-> TRUE, isList |-> FALSE, objs |-> <<o>>]
List(os) == [has |-> TRUE, isList |-> TRUE, objs |-> os]
SeqsUpTo(S, n) == UNION {[1 .. k -> S] : k \in 0 .. n}
Contributions ==
    {NoGetContextMenus} \cup {Single(o) : o \in MenuObjects}
       \cup {List(os) : os \in SeqsUpTo(ListObjects, MaxMenuList)}

VARIABLES
    menuAncestors,   \* what the ancestors of the item return, nearest first
    menuOwn,         \* the entries of the menu the item made
    menuCall         \* the last call of addParentContextMenus

menuVars == <<menuAncestors, menuOwn, menuCall>>

NoMenuCall == [called |-> FALSE, raised |-> FALSE, menu |-> << >>]

\* GraphicsScene.contextMenu
contextMenu == List(<< >>)

MenuInit ==
    /\ menuAncestors \in SeqsUpTo(Contributions, MaxAncestors)
    /\ menuOwn \in OwnMenus
    /\ menuCall = NoMenuCall

\* bool(x) of what getContextMenus returned: None, 0 and the empty list
\* are false.
Truthy(c) == IF c.isList THEN Len(c.objs) > 0 ELSE c.objs[1] \notin {"None", "zero"}

\* 'getContextMenus(event) or []'
OrEmptyList(c) == IF Truthy(c) THEN c ELSE List(<< >>)

ExtendLeft(menusToAdd, subMenus) == subMenus \o menusToAdd
Extend(menusToAdd, subMenus) == menusToAdd \o subMenus

\* The while loop: the ancestors from the nearest one up, then the scene.
RECURSIVE CollectMenus(_, _)
CollectMenus(chain, menusToAdd) ==
    IF chain = << >> THEN menusToAdd
    ELSE LET item == Head(chain)
         IN  IF ~item.has THEN CollectMenus(Tail(chain), menusToAdd)
             ELSE LET subMenus == OrEmptyList(item)
                  IN  CollectMenus(Tail(chain), Extend(menusToAdd, subMenus.objs))

\* The for loop over menusToAdd: addMenu, addAction or the exception.
RECURSIVE AddMenus(_, _)
AddMenus(menu, menusToAdd) ==
    IF menusToAdd = << >> THEN [called |-> TRUE, raised |-> FALSE, menu |-> menu]
    ELSE LET m == Head(menusToAdd)
         IN  IF m \in QMenus \/ m \in QActions
             THEN AddMenus(Append(menu, m), Tail(menusToAdd))
             ELSE [called |-> TRUE, raised |-> TRUE, menu |-> menu]

addParentContextMenus(ancestors, menu) ==
    LET menusToAdd == CollectMenus(ancestors \o <<contextMenu>>, << >>)
        withSeparator == IF menusToAdd # << >> THEN Append(menu, Separator) ELSE menu
    IN  AddMenus(withSeparator, menusToAdd)

AddParentContextMenus ==
    /\ ~menuCall.called
    /\ menuCall' = addParentContextMenus(menuAncestors, menuOwn)
    /\ UNCHANGED <<menuAncestors, menuOwn>>

MenuNext == AddParentContextMenus

(***************************************************************************)
(* PlotArea: items, legend, log mode and annotations                       *)
(*                                                                         *)
(* One PlotArea in a scene.  The items handed to it are a PlotItem with a  *)
(* name, a PlotItem without a name and a graphics item that is no          *)
(* PlotItem; the annotation items are the TextItems the area makes itself. *)
(* addedItems of a ViewBox and the items of the legend are lists: they are *)
(* kept as the number of times each item is in the list.  ViewBox,         *)
(* LegendItem and PlotItem are not part of the sources: addItem appends,   *)
(* removeItem takes one occurrence away and does nothing for an item that  *)
(* is not in the list, clear empties the legend, setLogX and setLogY store *)
(* the mode in the item.                                                   *)
(***************************************************************************)
NamedPlotItems == {"curve"}
UnnamedPlotItems == {"errorbar"}
PlotItems == NamedPlotItems \cup UnnamedPlotItems
OtherGraphicsItems == {"image"}
AreaInputs == PlotItems \cup OtherGraphicsItems
TextItems == <<"text1", "text2", "text3", "text4", "text5",
               "text6", "text7", "text8", "text9", "text10", "text11">>
AreaObjects == AreaInputs \cup {TextItems[k] : k \in 1 .. Len(TextItems)}
MAX_ANNOTATION_ITEMS == 10
ValueCounts == {0, 2, 11}
MaxCopies == 2

VARIABLES
    areaItems,            \* _items
    plotItems,            \* _plot_items
    plotItems2,           \* _plot_items2
    annotationItems,      \* _annotation_items
    annotationVisible,    \* isVisible() of each annotation item
    nVisAnnotationItems,  \* _n_vis_annotation_items
    vbAddedItems,         \* _vb.addedItems
    vb2,                  \* _vb2 is not None
    vb2AddedItems,        \* _vb2.addedItems
    legend,               \* _legend is not None
    legendItems,          \* _legend.items
    logXcb,               \* _log_x_cb.isChecked()
    logYcb,               \* _log_y_cb.isChecked()
    logXMode,             \* _log_x_mode of each PlotItem
    logYMode,             \* _log_y_mode of each PlotItem
    lastValues,           \* len(values) of the last setAnnotationList, or -1
    removeCall            \* the removeItem call on a TextItem, if it was the last operation

plotVars == <<areaItems, plotItems, plotItems2, annotationItems,
              annotationVisible, nVisAnnotationItems, vbAddedItems, vb2,
              vb2AddedItems, legend, legendItems, logXcb, logYcb, logXMode,
              logYMode, lastValues, removeCall>>

NoRemoveCall == [item |-> None, raised |-> FALSE]

EmptyList == [o \in AreaObjects |-> 0]
ListLen(l) == LET RECURSIVE Sum(_)
                  Sum(S) == IF S = {} THEN 0
                            ELSE LET o == CHOOSE x \in S : TRUE
                                 IN  l[o] + Sum(S \ {o})
              IN  Sum(AreaObjects)
ListAppend(l, o) == [l EXCEPT ![o] = @ + 1]
ListRemove(l, o) == [l EXCEPT ![o] = IF @ > 0 THEN @ - 1 ELSE 0]

PlotInit ==
    /\ areaItems = {}
    /\ plotItems = {}
    /\ plotItems2 = {}
    /\ annotationItems = << >>
    /\ annotationVisible = << >>
    /\ nVisAnnotationItems = 0
    /\ vbAddedItems = EmptyList
    /\ vb2 = FALSE
    /\ vb2AddedItems = EmptyList
    /\ legend = FALSE
    /\ legendItems = EmptyList
    /\ logXcb = FALSE
    /\ logYcb = FALSE
    /\ logXMode = [i \in PlotItems |-> FALSE]
    /\ logYMode = [i \in PlotItems |-> FALSE]
    /\ lastValues = -1
    /\ removeCall = NoRemoveCall

EveryItemNamed(item) == TRUE

\* bool(item.name())
HasName(item) == item \in NamedPlotItems

\* The state PlotArea.addItem reads and writes, as a record.
AreaState ==
    [items |-> areaItems, plot |-> plotItems, plot2 |-> plotItems2,
     vb |-> vbAddedItems, vb2 |-> vb2, vb2Items |-> vb2AddedItems,
     legendItems |-> legendItems, logX |-> logXMode, logY |-> logYMode]

\* The log mode addItem gives a plot item.
AddedLogMode(mode, item, checked) ==
    IF checked THEN [mode EXCEPT ![item] = TRUE] ELSE mode

\* PlotArea.addItem
PlotArea_addItem(s, item, y2) ==
    IF item \in s.items THEN s
    ELSE LET s1 == [s EXCEPT !.items = @ \cup {item}]
             s2 == IF item \in PlotItems
                   THEN LET s3 == IF y2
                                  THEN [s1 EXCEPT !.logX = AddedLogMode(@, item, logXcb),
                                                  !.plot2 = @ \cup {item}]
                                  ELSE [s1 EXCEPT !.logX = AddedLogMode(@, item, logXcb),
                                                  !.logY = AddedLogMode(@, item, logYcb),
                                                  !.plot = @ \cup {item}]
                        IN  IF legend /\ HasName(item)
                            THEN [s3 EXCEPT !.legendItems = ListAppend(@, item)]
                            ELSE s3
                   ELSE s1
         IN  IF y2
             THEN [s2 EXCEPT !.vb2 = TRUE, !.vb2Items = ListAppend(@, item)]
             ELSE [s2 EXCEPT !.vb = ListAppend(@, item)]

StoreArea(s) ==
    /\ areaItems' = s.items
    /\ plotItems' = s.plot
    /\ plotItems2' = s.plot2
    /\ vbAddedItems' = s.vb
    /\ vb2' = s.vb2
    /\ vb2AddedItems' = s.vb2Items
    /\ legendItems' = s.legendItems
    /\ logXMode' = s.logX
    /\ logYMode' = s.logY

AreaAddItem ==
    \E item \in AreaInputs, y2 \in BOOLEAN :
       /\ (IF y2 THEN vb2AddedItems[item] ELSE vbAddedItems[item]) < MaxCopies
       /\ StoreArea(PlotArea_addItem(AreaState, item, y2))
       /\ UNCHANGED <<annotationItems, annotationVisible, nVisAnnotationItems,
                      legend, logXcb, logYcb, lastValues>>
       /\ removeCall' = NoRemoveCall

\* What is kept of a removeItem call that returned: the item, if it is a
\* TextItem.
RemoveCallOf(item) ==
    IF item \in AreaInputs THEN NoRemoveCall
    ELSE [item |-> item, raised |-> FALSE]

NotAnAnnotationItem(item) == FALSE

InAnnotationItems(item) ==
    \E k \in 1 .. Len(annotationItems) : annotationItems[k] = item

\* PlotArea.removeItem; for an annotation item it raises RuntimeError
\* before it changes anything.
PlotArea_removeItem(item) ==
    IF item \notin areaItems
    THEN /\ removeCall' = RemoveCallOf(item)
         /\ UNCHANGED <<areaItems, plotItems, plotItems2, vbAddedItems,
                        vb2AddedItems, legendItems>>
    ELSE IF InAnnotationItems(item)
    THEN /\ removeCall' = [item |-> item, raised |-> TRUE]
         /\ UNCHANGED <<areaItems, plotItems, plotItems2, vbAddedItems,
                        vb2AddedItems, legendItems>>
    ELSE /\ removeCall' = RemoveCallOf(item)
         /\ areaItems' = areaItems \ {item}
         /\ IF item \in plotItems2
            THEN /\ plotItems2' = plotItems2 \ {item}
                 /\ legendItems' = IF legend /\ HasName(item)
                                   THEN ListRemove(legendItems, item)
                                   ELSE legendItems
                 /\ vb2AddedItems' = ListRemove(vb2AddedItems, item)
                 /\ UNCHANGED <<plotItems, vbAddedItems>>
            ELSE /\ plotItems' = plotItems \ {item}
                 /\ legendItems' = IF item \in plotItems /\ legend /\ HasName(item)
                                   THEN ListRemove(legendItems, item)
                                   ELSE legendItems
                 /\ vbAddedItems' = ListRemove(vbAddedItems, item)
                 /\ UNCHANGED <<plotItems2, vb2AddedItems>>

\* removeItem is called with the items handed to the area and with the
\* first two annotation items.
RemoveInputs == AreaInputs \cup {TextItems[1], TextItems[2]}

AreaRemoveItem ==
    \E item \in RemoveInputs :
       /\ item \in areaItems
       /\ PlotArea_removeItem(item)
       /\ UNCHANGED <<annotationItems, annotationVisible, nVisAnnotationItems,
                      vb2, legend, logXcb, logYcb, logXMode, logYMode,
                      lastValues>>

\* PlotArea.removeAllItems
removeAllItems ==
    /\ vbAddedItems' = [o \in AreaObjects |->
                          IF o \in areaItems /\ o \notin plotItems2
                          THEN ListRemove(vbAddedItems, o)[o]
                          ELSE vbAddedItems[o]]
    /\ vb2AddedItems' = [o \in AreaObjects |->
                           IF o \in areaItems /\ o \in plotItems2
                           THEN ListRemove(vb2AddedItems, o)[o]
                           ELSE vb2AddedItems[o]]
    /\ legendItems' = IF legend THEN EmptyList ELSE legendItems
    /\ plotItems' = {}
    /\ plotItems2' = {}
    /\ annotationItems' = << >>
    /\ annotationVisible' = << >>
    /\ nVisAnnotationItems' = 0
    /\ areaItems' = {}
    /\ UNCHANGED <<vb2, legend, logXcb, logYcb, logXMode, logYMode, lastValues>>
    /\ removeCall' = NoRemoveCall

\* PlotArea.addLegend
addLegend ==
    /\ ~legend
    /\ legend' = TRUE
    /\ legendItems' = [o \in AreaObjects |->
                         IF o \in plotItems \cup plotItems2 /\ HasName(o)
                         THEN legendItems[o] + 1 ELSE legendItems[o]]
    /\ UNCHANGED <<areaItems, plotItems, plotItems2, annotationItems,
                   annotationVisible, nVisAnnotationItems, vbAddedItems, vb2,
                   vb2AddedItems, logXcb, logYcb, logXMode, logYMode,
                   lastValues>>
    /\ removeCall' = NoRemoveCall

\* _onLogXChanged, called when the Log X checkbox is toggled.
onLogXChanged ==
    /\ logXcb' = ~logXcb
    /\ logXMode' = [i \in PlotItems |->
                      IF i \in plotItems \cup plotItems2 THEN logXcb' ELSE logXMode[i]]
    /\ UNCHANGED <<areaItems, plotItems, plotItems2, annotationItems,
                   annotationVisible, nVisAnnotationItems, vbAddedItems, vb2,
                   vb2AddedItems, legend, legendItems, logYcb, logYMode,
                   lastValues>>
    /\ removeCall' = NoRemoveCall

\* _onLogYChanged, called when the Log Y checkbox is toggled.
onLogYChanged ==
    /\ logYcb' = ~logYcb
    /\ logYMode' = [i \in PlotItems |->
                      IF i \in plotItems THEN logYcb' ELSE logYMode[i]]
    /\ UNCHANGED <<areaItems, plotItems, plotItems2, annotationItems,
                   annotationVisible, nVisAnnotationItems, vbAddedItems, vb2,
                   vb2AddedItems, legend, legendItems, logXcb, logXMode,
                   lastValues>>
    /\ removeCall' = NoRemoveCall

UncappedValues(n) == n

\* values[:_MAX_ANNOTATION_ITEMS]
CapValues(n) == Min(n, MAX_ANNOTATION_ITEMS)

\* The TextItems setAnnotationList makes and adds, from pool size n_items
\* up to n_pts.
RECURSIVE AddTextItems(_, _, _)
AddTextItems(s, n_items, n_pts) ==
    IF n_items >= n_pts THEN s
    ELSE AddTextItems(PlotArea_addItem(s, TextItems[n_items + 1], FALSE), n_items + 1, n_pts)

\* PlotArea.setAnnotationList with len(values) = n.  A new TextItem is
\* visible, as every new graphics item is.
setAnnotationList(n) ==
    LET n_pts == CapValues(n)
        n_items == Len(annotationItems)
        n_vis == nVisAnnotationItems
        grown == Max(n_items, n_pts)
    IN  /\ StoreArea(AddTextItems(AreaState, n_items, n_pts))
        /\ annotationItems' = SubSeq(TextItems, 1, grown)
        /\ annotationVisible' =
              [k \in 1 .. grown |->
                 IF n_vis < n_pts /\ k > n_vis /\ k <= n_pts THEN TRUE
                 ELSE IF n_vis > n_pts /\ k > n_pts /\ k <= n_vis THEN FALSE
                 ELSE IF k <= n_items THEN annotationVisible[k]
                 ELSE TRUE]
        /\ nVisAnnotationItems' = n_pts
        /\ lastValues' = n
        /\ UNCHANGED <<legend, logXcb, logYcb>>
        /\ removeCall' = NoRemoveCall

SetAnnotationList == \E n \in ValueCounts : setAnnotationList(n)

PlotNext ==
    \/ AreaAddItem
    \/ AreaRemoveItem
    \/ removeAllItems
    \/ addLegend
    \/ onLogXChanged
    \/ onLogYChanged
    \/ SetAnnotationList

restVars == <<mapVars, viewVars, menuVars, plotVars>>

(***************************************************************************)
(* GraphicsScene: the scene and its items                                  *)
(*                                                                         *)
(* Six items on the line y = 0;  a position is the x pixel coordinate.     *)
(*   A  z = 0, shape {0}                                                   *)
(*   B  z = 1, shape {0, 3}: B covers A and lies above it                  *)
(*   G  z = 3, shape {5}: an item without hover, click or drag handler,    *)
(*      whose own mousePressEvent accepts the right button                 *)
(*   C  z = -1, child of G (absolute z = 2), shape {3, 5}                  *)
(*   D  z = 5, shape {0}: a disabled item with a click handler, above A    *)
(*      and B                                                              *)
(*   E  z = 6, shape {3}: a hidden item with a click handler               *)
(***************************************************************************)

Items == {"A", "B", "C", "D", "E", "G"}

\* Pointer positions delivered by the host (scenePos of the raw events).
Pos == {0, 3, 5}

\* The order of the loop in mouseMoveEvent.
BtnOrder == <<"Left", "Middle", "Right">>

Buttons == {"Left", "Middle", "Right"}


parentItem == [i \in Items |-> IF i = "C" THEN "G" ELSE None]

zValue == [i \in Items |-> CASE i = "A" -> 0 [] i = "B" -> 1 [] i = "C" -> -1
                             [] i = "D" -> 5 [] i = "E" -> 6 [] OTHER -> 3]

shape == [i \in Items |-> CASE i = "A" -> {0} [] i = "B" -> {0, 3}
                            [] i = "C" -> {3, 5} [] i = "D" -> {0} [] i = "E" -> {3}
                            [] OTHER -> {5}]

\* The attributes hasattr() finds on an item: its event handlers.
attributes == [i \in Items |-> CASE i = "G" -> {}
                                 [] i \in {"D", "E"} -> {"mouseClickEvent"}
                                 [] OTHER -> {"hoverEvent", "mouseClickEvent", "mouseDragEvent"}]

isVisible == [i \in Items |-> i # "E"]

isEnabled == [i \in Items |-> i # "D"]

\* Items with GraphicsItemFlag.ItemIsFocusable.
focusable == {}

\* The buttons an item's hoverEvent handler asks for (acceptClicks and
\* acceptDrags) whenever it is called with an event that is not an exit.
wantsClicks == [i \in Items |-> IF i \in {"A", "C"} THEN {"Left"} ELSE {}]

wantsDrags == [i \in Items |-> IF i \in {"A", "B", "C"} THEN {"Left"} ELSE {}]

\* What an item's mouseClickEvent / mouseDragEvent handler does with an event,
\* unless it raises: the items of these sets accept it, the others ignore it.
acceptsClick == {"A", "C", "D", "E"}

acceptsDrag == {"A"}

\* The buttons whose native press an item's own mousePressEvent accepts.
nativeAccepts == [i \in Items |-> IF i = "G" THEN {"Right"} ELSE {}]

\* Items whose handlers may raise an exception.
Raisers == {"C"}

\* Items the application removes from the scene (keeping its reference to them).
Removable == {"A"}

\* QGraphicsScene.items(): the host's descending stacking order (a child is
\* stacked above its parent).
QtStackOrder == <<"E", "D", "C", "G", "B", "A">>

\* GraphicsScene.__init__(clickRadius=2, moveDistance=5)
clickRadius == 2

moveDistance == 5

\* self.minDragTime = 0.5 s; time is counted in units of 0.5 s.
minDragTime == 1

\* Cap on the clock ptime.time(), in units of 0.5 s.
MaxTime == 1

\* Cap on the number of mouse events the host delivers to the scene.
MaxEvents == 6

\* Cap on the number of mouse events of a two-button gesture (presses, moves
\* and releases only).
MaxGesture == 7

VARIABLES
    nEvents,        \* host: the number of mouse events delivered so far
    pointer,        \* host: where the pointer is (scenePos of the next event)
    buttons,        \* host: the buttons held (ev.buttons() of the next event)
    grabber,        \* host: QGraphicsScene.mouseGrabberItem()
    inScene,        \* host: the items whose scene() is this scene
    focusItem,      \* host: the item with keyboard focus
    now,            \* host: ptime.time()
    clickEvents,    \* self.clickEvents
    dragButtons,    \* self.dragButtons
    dragItem,       \* self.dragItem
    lastDrag,       \* self.lastDrag
    hoverItems,     \* self.hoverItems: its keys in insertion order
    lastHoverEvent, \* self.lastHoverEvent
    pressed,        \* observer: for each held button, where and when it was
                    \*           pressed, whether the press was left to the scene
                    \*           (no native grabber), and whether every move
                    \*           since has stayed short of a drag
    passClicks,     \* observer: button -> item whose acceptClicks returned True
                    \*           in the most recent hover pass
    out,            \* observer: the handler calls made by the last scene method
    last            \* host: the last event delivered, and whether an exception
                    \*       left the scene's method

sceneVars == <<nEvents, pointer, buttons, grabber, inScene, focusItem, now, clickEvents, dragButtons,
               dragItem, lastDrag, hoverItems, lastHoverEvent, pressed,
               passClicks, out, last>>

vars == <<lruVars, pixelVars, restVars, sceneVars>>

NoAccepts == [b \in Buttons |-> None]

NoPress == [pos |-> -1, time |-> 0, free |-> FALSE, calm |-> FALSE]

NoLast == [op |-> "none", button |-> None, raised |-> FALSE]

SceneInit ==
    /\ nEvents = 0
    /\ pointer = 0
    /\ buttons = {}
    /\ grabber = None
    /\ inScene = Items
    /\ focusItem = None
    /\ now = 0
    /\ clickEvents = << >>
    /\ dragButtons = << >>
    /\ dragItem = None
    /\ lastDrag = NoEvent
    /\ hoverItems = << >>
    /\ lastHoverEvent = NoEvent
    /\ pressed = [b \in Buttons |-> NoPress]
    /\ passClicks = NoAccepts
    /\ out = << >>
    /\ last = NoLast

\* Each specification starts the part it does not exercise in one fixed
\* state: a scene without view, an item without ancestors and an empty menu.
ViewIdle == ViewInit /\ sceneViews = 0
MenuIdle == MenuInit /\ menuAncestors = << >> /\ menuOwn = << >>

Init == LRUInit /\ PixelInit /\ MapRectInit /\ ViewIdle /\ MenuIdle /\ PlotInit /\ SceneInit
InitView == LRUInit /\ PixelInit /\ MapRectInit /\ ViewInit /\ MenuIdle /\ PlotInit /\ SceneInit
InitMenu == LRUInit /\ PixelInit /\ MapRectInit /\ ViewIdle /\ MenuInit /\ PlotInit /\ SceneInit

\* hasattr(item, name)
HasAttr(item, name) == name \in attributes[item]

\* A membership test that finds nothing.
NeverInSeq(x, s) == FALSE

\* "x in s" for a list s.
InSeq(x, s) == \E n \in 1 .. Len(s) : s[n] = x

\* A list removal that removes nothing.
KeepAll(s, x) == s

\* list.remove(x): the list without its first element equal to x.
RECURSIVE Remove(_, _)
Remove(s, x) ==
    IF s = << >> THEN << >>
    ELSE IF Head(s) = x THEN Tail(s) ELSE <<Head(s)>> \o Remove(Tail(s), x)

\* Point(a - b).length() on the line y = 0.
Length(d) == IF d < 0 THEN 0 - d ELSE d

RECURSIVE absZValue(_)
\* absZValue in itemsNearEvent: the sum of all item/parent ZValues.
absZValue(item) == IF item = None THEN 0 ELSE zValue[item] + absZValue(parentItem[item])

\* list.sort(key=absZValue, reverse=True): a stable sort, descending.
RECURSIVE InsertByZ(_, _)
InsertByZ(sorted, x) ==
    IF sorted = << >> THEN <<x>>
    ELSE IF absZValue(Head(sorted)) >= absZValue(x)
         THEN <<Head(sorted)>> \o InsertByZ(Tail(sorted), x)
         ELSE <<x>> \o sorted

RECURSIVE SortByZ(_)
SortByZ(s) ==
    IF s = << >> THEN << >>
    ELSE InsertByZ(SortByZ(SubSeq(s, 1, Len(s) - 1)), s[Len(s)])

\* QGraphicsScene.items(point, ...): the visible items of the scene, in the
\* host's order (the host's own hit test is not relied upon).
QtItems ==
    LET Shown(i) == i \in inScene /\ isVisible[i]
    IN SelectSeq(QtStackOrder, Shown)

\* GraphicsScene.itemsNearEvent, for an event whose point is `point`.
itemsNearEvent(point, hoverable) ==
    LET Keep(i) == /\ hoverable => HasAttr(i, "hoverEvent")
                   /\ i \in inScene
                   /\ point \in shape[i]
    IN SortByZ(SelectSeq(QtItems, Keep))

(***************************************************************************)
(* What the items' handlers do (application code): the choices             *)
(***************************************************************************)

\* One hover pass: every item called asks for the buttons it wants, and at
\* most one item's hoverEvent raises.
HoverChoices(targets, mayRaise) ==
    {[i \in Items |-> IF i = r THEN "raise" ELSE "ask"] :
        r \in (IF mayRaise THEN targets \cap Raisers ELSE {}) \cup {None}}

\* One click or drag dispatch: the items of `accepting` accept the event, the
\* others ignore it, and at most one handler raises instead.
DispatchChoices(targets, accepting, mayRaise) ==
    {[i \in Items |-> IF i = r THEN "raise"
                      ELSE IF i \in accepting THEN "accept" ELSE "ignore"] :
        r \in (IF mayRaise THEN targets \cap Raisers ELSE {}) \cup {None}}

HoverNote(item, enter, exit) ==
    [kind |-> "hover", item |-> item, button |-> None,
     enter |-> enter, exit |-> exit, start |-> FALSE, finish |-> FALSE]

ClickNote(item, button) ==
    [kind |-> "click", item |-> item, button |-> button,
     enter |-> FALSE, exit |-> FALSE, start |-> FALSE, finish |-> FALSE]

DragNote(item, event) ==
    [kind |-> "drag", item |-> item, button |-> event.button,
     enter |-> FALSE, exit |-> FALSE, start |-> event.start, finish |-> event.finish]

(***************************************************************************)
(* mouseEvents.py (not among the sources): the event objects               *)
(***************************************************************************)

\* MouseClickEvent(ev, double): the press it was made from (the double flag
\* is for the handlers; the scene never reads it).
MouseClickEvent(button, pos, double) ==
    [button |-> button, scenePos |-> pos, time |-> now]

\* HoverEvent.acceptClicks / acceptDrags for every button of btns: the item is
\* recorded for a button if the event is acceptable and no item has it yet.
AcceptAll(map, acceptable, btns, item) ==
    [b \in Buttons |-> IF b \in btns /\ acceptable /\ map[b] = None THEN item ELSE map[b]]

\* MouseDragEvent(moveEvent, pressEvent, lastEvent, start, finish): its button
\* and its button-down position are those of the press event.
MouseDragEvent(pos, pressEvent, start, finish) ==
    [button |-> pressEvent.button, scenePos |-> pos, downPos |-> pressEvent.scenePos,
     start |-> start, finish |-> finish]

(***************************************************************************)
(* GraphicsScene.sendHoverEvents                                           *)
(***************************************************************************)

\* The first loop: enter / move notifications to the candidates.
RECURSIVE HoverEnterLoop(_, _, _, _, _)
HoverEnterLoop(items, n, st, acceptable, hb) ==
    IF n > Len(items) \/ st.raised THEN st
    ELSE LET item == items[n]
             enter == ~InSeq(item, st.hover)
             st1 == [st EXCEPT !.hover = IF enter THEN Append(@, item) ELSE @,
                               !.prev = IF enter THEN @ ELSE Remove(@, item),
                               !.out = Append(@, HoverNote(item, enter, FALSE))]
             st2 == CASE hb[item] = "raise" -> [st1 EXCEPT !.raised = TRUE]
                      [] hb[item] = "ask" ->
                           [st1 EXCEPT
                              !.clicks = AcceptAll(@, acceptable, wantsClicks[item], item),
                              !.drags = AcceptAll(@, acceptable, wantsDrags[item], item)]
                      [] OTHER -> st1
         IN IF HasAttr(item, "hoverEvent")
            THEN HoverEnterLoop(items, n + 1, st2, acceptable, hb)
            ELSE HoverEnterLoop(items, n + 1, st, acceptable, hb)

\* The second loop: exit notifications to the items hovered no more.
RECURSIVE HoverExitLoop(_, _, _, _)
HoverExitLoop(prev, n, st, hb) ==
    IF n > Len(prev) \/ st.raised THEN st
    ELSE LET item == prev[n]
             told == item \in inScene
             st1 == IF told THEN [st EXCEPT !.out = Append(@, HoverNote(item, FALSE, TRUE))]
                    ELSE st
         IN IF told /\ hb[item] = "raise"
            THEN [st1 EXCEPT !.raised = TRUE]
            ELSE HoverExitLoop(prev, n + 1, [st1 EXCEPT !.hover = Remove(@, item)], hb)

\* The condition under which sendHoverEvents saves the event as lastHoverEvent.
SavesHover(type, held) == type = "press" \/ (type = "move" /\ held = {})

\* sendHoverEvents(ev, exitOnly) for an event of the given type at pos, with the
\* buttons `held` down: the new hoverItems and lastHoverEvent, the calls made,
\* whether a handler raised, and what the items were granted.
sendHoverEvents(type, pos, held, exitOnly, hb) ==
    LET acceptable == IF exitOnly THEN FALSE ELSE held = {}
        items == IF exitOnly THEN << >> ELSE itemsNearEvent(pos, TRUE)
        st0 == [hover |-> hoverItems, prev |-> hoverItems, clicks |-> NoAccepts,
                drags |-> NoAccepts, out |-> << >>, raised |-> FALSE]
        st1 == HoverEnterLoop(items, 1, st0, acceptable, hb)
        st2 == HoverExitLoop(st1.prev, 1, st1, hb)
        event == [scenePos |-> pos, clickItems |-> st2.clicks, dragItems |-> st2.drags]
    IN [hoverItems |-> st2.hover,
        lastHoverEvent |-> IF ~st2.raised /\ ~exitOnly /\ SavesHover(type, held)
                           THEN <<event>> ELSE lastHoverEvent,
        out |-> st2.out,
        raised |-> st2.raised,
        clicks |-> st2.clicks]

SeqSet(s) == {s[n] : n \in 1 .. Len(s)}

\* The items a hover pass at pos calls.
HoverTargets(pos, exitOnly) ==
    SeqSet(hoverItems) \cup (IF exitOnly THEN {} ELSE SeqSet(itemsNearEvent(pos, TRUE)))

(***************************************************************************)
(* GraphicsScene.sendDragEvent and sendClickEvent                          *)
(***************************************************************************)

\* A loop that would skip only the items without the handler.
SkipsUnhandled(item, handler) == ~HasAttr(item, handler)

\* The items the dispatch loops pass over: "if not item.isVisible() or not
\* item.isEnabled(): continue" and "if hasattr(item, handler)".
Skips(item, handler) ==
    ~isVisible[item] \/ ~isEnabled[item] \/ ~HasAttr(item, handler)

\* The loop of sendDragEvent over itemsNearEvent(event): a raising handler is
\* caught; the first item that accepts becomes the drag item.
RECURSIVE DragLoop(_, _, _, _, _)
DragLoop(items, n, st, event, db) ==
    IF n > Len(items) THEN st
    ELSE LET item == items[n]
             st1 == [st EXCEPT !.out = Append(@, DragNote(item, event))]
         IN IF Skips(item, "mouseDragEvent")
            THEN DragLoop(items, n + 1, st, event, db)
            ELSE IF db[item] = "accept"
                 THEN [st1 EXCEPT !.dragItem = item, !.accepted = TRUE,
                                  !.focus = IF item \in focusable THEN item ELSE @]
                 ELSE DragLoop(items, n + 1, st1, event, db)

\* A bug: a later drag event is offered to the items near the event again.
DragTargetReoffered(init, target) == TRUE

\* A condition under which sendDragEvent would look for a drag item on every
\* move of a drag that has none.
DragTargetMissing(init, target) == target = None

\* The condition of sendDragEvent's first branch: the drag item is looked for
\* only on the initial move of a drag and only while there is none.
DragTargetOpen(init, target) == init /\ target = None

\* sendDragEvent(ev, init, final) for an event at pos, the pending click events
\* being cevs: the new dragItem, lastDrag and focus item, the calls made,
\* whether an exception left the method, and the event's accepted flag.
sendDragEvent(pos, init, final, cevs, db) ==
    LET st0 == [dragItem |-> dragItem, lastDrag |-> lastDrag, focus |-> focusItem,
                out |-> << >>, raised |-> FALSE, accepted |-> FALSE, event |-> NoEvent]
    IN IF cevs = << >>
       THEN [st0 EXCEPT !.raised = TRUE]     \* self.clickEvents[0]: IndexError
       ELSE
         LET event == MouseDragEvent(pos, cevs[1], init, final)
             acceptedItem == IF lastHoverEvent # NoEvent
                             THEN lastHoverEvent[1].dragItems[event.button] ELSE None
             st1 == [st0 EXCEPT !.event = <<event>>]
             done ==
               IF DragTargetOpen(init, dragItem)
               THEN IF acceptedItem # None /\ acceptedItem \in inScene
                    THEN [st1 EXCEPT !.dragItem = acceptedItem,
                                     !.out = <<DragNote(acceptedItem, event)>>,
                                     !.accepted = (db[acceptedItem] = "accept")]
                    ELSE DragLoop(itemsNearEvent(event.downPos, FALSE), 1, st1, event, db)
               ELSE IF dragItem # None
                    THEN [st1 EXCEPT !.out = <<DragNote(dragItem, event)>>,
                                     !.raised = (db[dragItem] = "raise"),
                                     !.accepted = (db[dragItem] = "accept")]
                    ELSE st1
         IN IF done.raised THEN done
            ELSE [done EXCEPT !.lastDrag = <<[scenePos |-> pos]>>]

\* The items sendDragEvent may call.
DragTargets(cevs) ==
    IF cevs = << >> THEN {}
    ELSE {i \in Items : HasAttr(i, "mouseDragEvent")} \cap
         ({dragItem} \cup SeqSet(itemsNearEvent(cevs[1].scenePos, FALSE))
            \cup (IF lastHoverEvent = NoEvent THEN {}
                  ELSE {lastHoverEvent[1].dragItems[cevs[1].button]}))

\* The loop of sendClickEvent over itemsNearEvent(ev): it stops at the first
\* item that accepts, and a raising handler ends the method.
RECURSIVE ClickLoop(_, _, _, _, _)
ClickLoop(items, n, st, cev, cb) ==
    IF n > Len(items) THEN st
    ELSE LET item == items[n]
             st1 == [st EXCEPT !.out = Append(@, ClickNote(item, cev.button))]
         IN IF Skips(item, "mouseClickEvent")
            THEN ClickLoop(items, n + 1, st, cev, cb)
            ELSE CASE cb[item] = "raise" -> [st1 EXCEPT !.raised = TRUE]
                   [] cb[item] = "accept" ->
                        [st1 EXCEPT !.accepted = TRUE,
                                    !.focus = IF item \in focusable THEN item ELSE @]
                   [] OTHER -> ClickLoop(items, n + 1, st1, cev, cb)

\* sendClickEvent(ev) for the pending click event cev.
sendClickEvent(cev, cb) ==
    LET st0 == [focus |-> focusItem, out |-> << >>, raised |-> FALSE, accepted |-> FALSE]
        acceptedItem == IF lastHoverEvent # NoEvent
                        THEN lastHoverEvent[1].clickItems[cev.button] ELSE None
        Deliver(item) == [st0 EXCEPT !.out = <<ClickNote(item, cev.button)>>,
                                     !.raised = (cb[item] = "raise"),
                                     !.accepted = (cb[item] = "accept")]
    IN IF dragItem # None /\ HasAttr(dragItem, "MouseDragEvent")
       THEN Deliver(dragItem)
       ELSE IF acceptedItem # None
            THEN Deliver(acceptedItem)
            ELSE ClickLoop(itemsNearEvent(cev.scenePos, FALSE), 1, st0, cev, cb)

\* The items sendClickEvent may call.
ClickTargets(cev) ==
    {i \in Items : HasAttr(i, "mouseClickEvent")} \cap
    ({dragItem} \cup SeqSet(itemsNearEvent(cev.scenePos, FALSE))
       \cup (IF lastHoverEvent = NoEvent THEN {}
             ELSE {lastHoverEvent[1].clickItems[cev.button]}))

(***************************************************************************)
(* GraphicsScene: the mouse event methods                                  *)
(***************************************************************************)

AllIgnore == [i \in Items |-> "ignore"]

\* The pending click events of a button: [e for e in self.clickEvents if e.button() == btn]
ClickEventsOf(btn) ==
    LET Is(e) == e.button = btn
    IN SelectSeq(clickEvents, Is)

\* QGraphicsScene.mousePressEvent / mouseDoubleClickEvent (host): an existing
\* grabber keeps the mouse; otherwise the topmost item under the pointer whose
\* own press handler accepts the button becomes the grabber.
NativePress(b, p) ==
    LET Takes(i) == p \in shape[i] /\ isEnabled[i] /\ b \in nativeAccepts[i]
        found == SelectSeq(QtItems, Takes)
    IN IF grabber # None THEN grabber
       ELSE IF found = << >> THEN None ELSE Head(found)

\* The focus loop of mousePressEvent: the topmost focusable item under the click.
FocusOnPress(p) ==
    LET Can(i) == p \in shape[i] /\ isEnabled[i] /\ isVisible[i] /\ i \in focusable
        found == SelectSeq(QtItems, Can)
    IN IF found = << >> THEN focusItem ELSE Head(found)

\* A bug: the scene generates its events whether or not an item holds the mouse.
FreeToGenerateAlways(g) == TRUE

\* "if self.mouseGrabberItem() is None": nobody claimed the press, the scene
\* is free to generate click and drag events.
FreeToGenerate(g) == g = None

\* GraphicsScene.mousePressEvent
mousePressEvent(b, p, hb) ==
    LET held == buttons \cup {b}
        g == NativePress(b, p)
        pass == FreeToGenerate(g) /\ lastHoverEvent # NoEvent /\ p # lastHoverEvent[1].scenePos
        hov == sendHoverEvents("press", p, held, FALSE, hb)
        aborted == pass /\ hov.raised
        recorded == FreeToGenerate(g) /\ ~aborted
    IN /\ buttons' = held
       /\ pressed' = [pressed EXCEPT ![b] = [pos |-> p, time |-> now, free |-> g = None,
                                              calm |-> TRUE]]
       /\ grabber' = g
       /\ hoverItems' = IF pass THEN hov.hoverItems ELSE hoverItems
       /\ lastHoverEvent' = IF pass THEN hov.lastHoverEvent ELSE lastHoverEvent
       /\ passClicks' = IF pass THEN hov.clicks ELSE passClicks
       /\ clickEvents' = IF recorded
                         THEN Append(clickEvents, MouseClickEvent(b, p, FALSE))
                         ELSE clickEvents
       /\ focusItem' = IF recorded THEN FocusOnPress(p) ELSE focusItem
       /\ out' = IF pass THEN hov.out ELSE << >>
       /\ last' = [NoLast EXCEPT !.op = "press", !.button = b, !.raised = aborted]
       /\ UNCHANGED <<pointer, inScene, now, dragButtons, dragItem, lastDrag, lruVars, pixelVars, restVars>>

\* mouseMoveEvent's test that a held button has not moved far or long enough
\* to be dragging.
StillAClick(dist, elapsed) ==
    dist = 0 \/ (dist < moveDistance /\ elapsed < minDragTime)

\* The loop of mouseMoveEvent over the buttons: the new dragButtons and init.
RECURSIVE Promote(_, _, _)
Promote(n, st, p) ==
    IF n > Len(BtnOrder) THEN st
    ELSE LET btn == BtnOrder[n]
             cev == ClickEventsOf(btn)
             far == ~StillAClick(Length(p - cev[1].scenePos), now - cev[1].time)
         IN IF btn \in buttons /\ ~InSeq(btn, st.dragButtons) /\ cev # << >> /\ far
            THEN Promote(n + 1, [dragButtons |-> Append(st.dragButtons, btn),
                                 init |-> st.init \/ Len(st.dragButtons) = 0], p)
            ELSE Promote(n + 1, st, p)

\* GraphicsScene.mouseMoveEvent
mouseMoveEvent(p, hb, db) ==
    LET hov == sendHoverEvents("move", p, buttons, FALSE, hb)
        tracking == ~hov.raised /\ buttons # {} /\ FreeToGenerate(grabber)
        pr == IF tracking THEN Promote(1, [dragButtons |-> dragButtons, init |-> FALSE], p)
              ELSE [dragButtons |-> dragButtons, init |-> FALSE]
        sends == tracking /\ Len(pr.dragButtons) > 0
        d == sendDragEvent(p, pr.init, FALSE, clickEvents, db)
    IN /\ hoverItems' = hov.hoverItems
       /\ lastHoverEvent' = hov.lastHoverEvent
       /\ passClicks' = hov.clicks
       /\ dragButtons' = pr.dragButtons
       /\ dragItem' = IF sends THEN d.dragItem ELSE dragItem
       /\ lastDrag' = IF sends THEN d.lastDrag ELSE lastDrag
       /\ focusItem' = IF sends THEN d.focus ELSE focusItem
       /\ out' = IF sends THEN hov.out \o d.out ELSE hov.out
       /\ pointer' = p
       /\ last' = [NoLast EXCEPT !.op = "move",
                                 !.raised = hov.raised \/ (sends /\ d.raised)]
       /\ pressed' = [b \in Buttons |->
                        IF b \in buttons
                        THEN [pressed[b] EXCEPT
                                !.calm = /\ @
                                         /\ Length(p - pressed[b].pos) < moveDistance
                                         /\ now - pressed[b].time < minDragTime]
                        ELSE pressed[b]]
       /\ UNCHANGED <<buttons, grabber, inScene, now, clickEvents, lruVars, pixelVars, restVars>>

\* GraphicsScene.leaveEvent
leaveEvent(hb) ==
    LET pass == Len(dragButtons) = 0
        hov == sendHoverEvents("leave", -1, buttons, TRUE, hb)
    IN /\ hoverItems' = IF pass THEN hov.hoverItems ELSE hoverItems
       /\ passClicks' = IF pass THEN hov.clicks ELSE passClicks
       /\ out' = IF pass THEN hov.out ELSE << >>
       /\ last' = [NoLast EXCEPT !.op = "leave", !.raised = pass /\ hov.raised]
       /\ UNCHANGED <<pointer, buttons, grabber, inScene, focusItem, now, clickEvents,
                      dragButtons, dragItem, lastDrag, lastHoverEvent, pressed, lruVars, pixelVars, restVars>>

\* GraphicsScene.mouseReleaseEvent
mouseReleaseEvent(b, p, cb, hb) ==
    LET held == buttons \ {b}
        free == FreeToGenerate(grabber)
        drags == free /\ InSeq(b, dragButtons)
        cev == ClickEventsOf(b)
        clicks == free /\ ~drags /\ cev # << >>
        d == sendDragEvent(p, FALSE, TRUE, clickEvents, cb)
        c == sendClickEvent(cev[1], cb)
        aborted == (drags /\ d.raised) \/ (clicks /\ c.raised)
        reset == ~aborted /\ held = {}
        hov == sendHoverEvents("release", p, held, FALSE, hb)
        sent == IF drags THEN d.out ELSE IF clicks THEN c.out ELSE << >>
    IN /\ buttons' = held
       /\ pressed' = [pressed EXCEPT ![b] = NoPress]
       /\ dragButtons' = IF reset THEN << >>
                         ELSE IF drags /\ ~aborted THEN Remove(dragButtons, b)
                         ELSE dragButtons
       /\ clickEvents' = IF reset THEN << >>
                         ELSE IF clicks /\ ~aborted THEN Remove(clickEvents, cev[1])
                         ELSE clickEvents
       /\ dragItem' = IF reset THEN None
                      ELSE IF drags /\ ~aborted THEN d.dragItem ELSE dragItem
       /\ lastDrag' = IF reset THEN NoEvent
                      ELSE IF drags /\ ~aborted THEN d.lastDrag ELSE lastDrag
       /\ focusItem' = IF clicks /\ ~aborted THEN c.focus
                       ELSE IF drags /\ ~aborted THEN d.focus ELSE focusItem
       /\ grabber' = IF ~aborted /\ held = {} THEN None ELSE grabber
       /\ hoverItems' = IF aborted THEN hoverItems ELSE hov.hoverItems
       /\ lastHoverEvent' = IF aborted THEN lastHoverEvent ELSE hov.lastHoverEvent
       /\ passClicks' = IF aborted THEN passClicks ELSE hov.clicks
       /\ out' = IF aborted THEN sent ELSE sent \o hov.out
       /\ last' = [NoLast EXCEPT !.op = "release", !.button = b,
                                 !.raised = aborted \/ hov.raised]
       /\ UNCHANGED <<pointer, inScene, now, lruVars, pixelVars, restVars>>

\* GraphicsScene.mouseDoubleClickEvent
mouseDoubleClickEvent(b, p) ==
    LET g == NativePress(b, p)
    IN /\ buttons' = buttons \cup {b}
       /\ pressed' = [pressed EXCEPT ![b] = [pos |-> p, time |-> now, free |-> g = None,
                                              calm |-> TRUE]]
       /\ grabber' = g
       /\ clickEvents' = IF FreeToGenerate(g)
                         THEN Append(clickEvents, MouseClickEvent(b, p, TRUE))
                         ELSE clickEvents
       /\ out' = << >>
       /\ last' = [NoLast EXCEPT !.op = "doubleclick", !.button = b]
       /\ UNCHANGED <<pointer, inScene, focusItem, now, dragButtons, dragItem, lastDrag,
                      hoverItems, lastHoverEvent, passClicks, lruVars, pixelVars, restVars>>

\* The host's clock advances between two events (followed while a press is
\* pending: the clock is read only to stamp and to age the click events).
Tick ==
    /\ now < MaxTime
    /\ clickEvents # << >>
    /\ now' = now + 1
    /\ out' = << >>
    /\ last' = [NoLast EXCEPT !.op = "tick"]
    /\ UNCHANGED <<nEvents, pointer, buttons, grabber, inScene, focusItem, clickEvents,
                   dragButtons, dragItem, lastDrag, hoverItems, lastHoverEvent,
                   pressed, passClicks, lruVars, pixelVars, restVars>>

RECURSIVE Ancestors(_)
Ancestors(i) == IF parentItem[i] = None THEN {} ELSE {parentItem[i]} \cup Ancestors(parentItem[i])

\* QGraphicsScene.removeItem (host), called by the application, which keeps its
\* own reference to the item: the item and its descendants leave the scene.
removeItem(i) ==
    LET gone == {j \in Items : j = i \/ i \in Ancestors(j)}
    IN /\ i \in inScene
       /\ inScene' = inScene \ gone
       /\ focusItem' = IF focusItem \in gone THEN None ELSE focusItem
       /\ grabber' = IF grabber \in gone THEN None ELSE grabber
       /\ out' = << >>
       /\ last' = [NoLast EXCEPT !.op = "remove"]
       /\ UNCHANGED <<nEvents, pointer, buttons, now, clickEvents, dragButtons, dragItem,
                      lastDrag, hoverItems, lastHoverEvent, pressed, passClicks,
                      lruVars, pixelVars, restVars>>

\* What the handlers called by one scene method may do.
PassChoices(p, exitOnly, mayRaise) ==
    HoverChoices(HoverTargets(p, exitOnly), mayRaise)

MoveDragChoices(mayRaise) ==
    IF buttons = {} \/ grabber # None THEN {AllIgnore}
    ELSE DispatchChoices(DragTargets(clickEvents), acceptsDrag, mayRaise)

ReleaseChoices(b, mayRaise) ==
    IF grabber # None THEN {AllIgnore}
    ELSE IF InSeq(b, dragButtons)
         THEN DispatchChoices(DragTargets(clickEvents), acceptsDrag, mayRaise)
    ELSE IF ClickEventsOf(b) # << >>
         THEN DispatchChoices(ClickTargets(ClickEventsOf(b)[1]), acceptsClick, mayRaise)
    ELSE {AllIgnore}

\* The host's events: a press, a double click or a release is reported at the
\* pointer's position, a move takes the pointer to another one, and a double
\* click is the press that follows the release of the same button.
Delivered ==
    /\ nEvents < MaxEvents
    /\ nEvents' = nEvents + 1

Press(mayRaise, hostButtons) ==
    \E b \in hostButtons \ buttons :
        /\ Delivered
        /\ \E hb \in PassChoices(pointer, FALSE, mayRaise) :
                mousePressEvent(b, pointer, hb)

DoubleClick(hostButtons) ==
    \E b \in hostButtons \ buttons :
        /\ Delivered
        /\ last.op = "release" /\ last.button = b
        /\ mouseDoubleClickEvent(b, pointer)

Move(mayRaise) ==
    \E p \in Pos \ {pointer} :
        /\ Delivered
        /\ \E hb \in PassChoices(p, FALSE, mayRaise), db \in MoveDragChoices(mayRaise) :
              mouseMoveEvent(p, hb, db)

Release(mayRaise) ==
    \E b \in buttons :
        /\ Delivered
        /\ \E cb \in ReleaseChoices(b, mayRaise),
              hb \in PassChoices(pointer, FALSE, mayRaise) :
                mouseReleaseEvent(b, pointer, cb, hb)

Leave(mayRaise) ==
    /\ Delivered
    /\ \E hb \in PassChoices(-1, TRUE, mayRaise) : leaveEvent(hb)

RemoveItem == \E i \in Removable : removeItem(i)

\* The scene under a host that presses the buttons of hostButtons.
SceneNext(mayRaise, hostButtons) ==
    \/ Press(mayRaise, hostButtons)
    \/ DoubleClick(hostButtons)
    \/ Move(mayRaise)
    \/ Release(mayRaise)
    \/ Leave(mayRaise)
    \/ Tick

\* A gesture of the host with two buttons: presses, moves and releases only,
\* the handlers of the items return normally.
GestureEvent ==
    /\ nEvents < MaxGesture
    /\ nEvents' = nEvents + 1

GesturePress ==
    \E b \in {"Left", "Right"} \ buttons :
        /\ GestureEvent
        /\ \E hb \in PassChoices(pointer, FALSE, FALSE) :
                mousePressEvent(b, pointer, hb)

GestureMove ==
    \E p \in Pos \ {pointer} :
        /\ GestureEvent
        /\ \E hb \in PassChoices(p, FALSE, FALSE), db \in MoveDragChoices(FALSE) :
              mouseMoveEvent(p, hb, db)

GestureRelease ==
    \E b \in buttons :
        /\ GestureEvent
        /\ \E cb \in ReleaseChoices(b, FALSE),
              hb \in PassChoices(pointer, FALSE, FALSE) :
                mouseReleaseEvent(b, pointer, cb, hb)

NextGesture ==
    \/ GesturePress
    \/ GestureMove
    \/ GestureRelease
    \/ Tick

\* One button, and the handlers of the items may raise.
Next == SceneNext(TRUE, {"Left"})

\* Two buttons, the handlers of the items return normally, and the application
\* may remove an item.
NextNoRaise == SceneNext(FALSE, {"Left", "Right"}) \/ RemoveItem

Spec == Init /\ [][Next]_vars

SpecNoRaise == Init /\ [][NextNoRaise]_vars

SpecGesture == Init /\ [][NextGesture]_vars

SpecLRU == Init /\ [][LRUNext /\ UNCHANGED <<pixelVars, restVars, sceneVars>>]_vars

SpecPixel == Init /\ [][PixelNext /\ UNCHANGED <<lruVars, restVars, sceneVars>>]_vars

SpecMapRect == Init /\ [][MapRectNext /\ UNCHANGED <<pixelVars, viewVars, menuVars, plotVars, sceneVars>>]_vars

SpecView == InitView /\ [][ViewNext /\ UNCHANGED <<lruVars, pixelVars, mapVars, menuVars, plotVars, sceneVars>>]_vars

SpecMenu == InitMenu /\ [][MenuNext /\ UNCHANGED <<lruVars, pixelVars, mapVars, viewVars, plotVars, sceneVars>>]_vars

SpecPlot == Init /\ [][PlotNext /\ UNCHANGED <<lruVars, pixelVars, mapVars, viewVars, menuVars, sceneVars>>]_vars

(***************************************************************************)
(* Claims about LRUCache, checked under SpecLRU                            *)
(***************************************************************************)

\* C6: inserting maxSize+1 distinct keys into an empty cache, with no other
\* operation in between, triggers exactly one eviction pass, and that pass
\* leaves exactly resizeTo entries, the most recently touched ones (stated for
\* the constructions with 1 <= resizeTo < maxSize).
C6_OnePassLeavesResizeTo ==
    (lruState = "ok" /\ resizeTo >= 1 /\ lruPure /\ lruNextTime = maxSize + 1)
        => /\ lruPasses = 1
           /\ lruOp.pass
           /\ lruOp.kept = resizeTo
           /\ \A k \in DOMAIN lruDict :
                 lruDict[k].time >= lruNextTime - LRULen(lruDict)

\* C7: a read (through [] or get) updates the key's recency: at the next
\* eviction pass a key that was read survives ahead of every key that has not
\* been touched since before that read (if such a key survives the pass, so
\* does the key that was read).
C7_ReadKeySurvivesAhead ==
    [][lruPasses' = lruPasses + 1
         => \A k \in DOMAIN lruDict, j \in DOMAIN lruDict :
              (/\ lruLastRead[k] >= 0
               /\ lruDict[j].time < lruLastRead[k]
               /\ j \in DOMAIN lruDict')
                  => k \in DOMAIN lruDict']_lruVars

\* C7 witness: an eviction pass has just deleted entries while a key whose last
\* touch was a read survived it.
C7_Witness ==
    /\ resizeTo >= 1
    /\ lruOp.pass
    /\ lruOp.evicted # {}
    /\ \E k \in DOMAIN lruDict \cap lruOp.before :
          lruLastRead[k] >= 0 /\ lruLastRead[k] = lruDict[k].time

\* C8: for every accepted construction (stated for 0 <= resizeTo < maxSize)
\* the number of entries never exceeds maxSize.
C8_NeverExceedsMaxSize ==
    (lruState = "ok" /\ resizeTo >= 0) => LRULen(lruDict) <= maxSize

(***************************************************************************)
(* Claims about the mouse dispatch of GraphicsScene                        *)
(***************************************************************************)

\* The calls of one kind among the calls o.
NotesOf(o, kind) ==
    LET Is(n) == n.kind = kind
    IN SelectSeq(o, Is)

\* The hover notifications of one sort that item i got among the calls o.
HoverNotesOf(o, i, enter, exit) ==
    LET Is(n) == n.kind = "hover" /\ n.item = i /\ n.enter = enter /\ n.exit = exit
    IN SelectSeq(o, Is)

\* The step is the scene's handling of one host event of the kind op.
Handles(op) == nEvents' = nEvents + 1 /\ last'.op = op

\* The absolute Z of an item: its own Z plus the Z of all its ancestors.
RECURSIVE SumZ(_)
SumZ(S) ==
    IF S = {} THEN 0
    ELSE LET x == CHOOSE y \in S : TRUE
         IN zValue[x] + SumZ(S \ {x})

AbsoluteZ(i) == zValue[i] + SumZ(Ancestors(i))

\* The click candidates at a point: the items of the scene with a click
\* handler whose shape contains the point.
ClickCandidates(p) ==
    {i \in inScene : HasAttr(i, "mouseClickEvent") /\ isVisible[i] /\ isEnabled[i]
                     /\ p \in shape[i]}

\* C1: if item X was granted acceptClicks(B) in the hover pass immediately
\* preceding the click and X is still in the scene, the click of button B
\* dispatched on the release of B is delivered to X (whichever item is topmost).
C1_DeclaredItemGetsClick ==
    [][\A b \in Buttons :
          (/\ Handles("release") /\ last'.button = b
           /\ NotesOf(out', "click") # << >>
           /\ passClicks[b] # None
           /\ passClicks[b] \in inScene)
              => \E n \in 1 .. Len(out') :
                    out'[n].kind = "click" /\ out'[n].item = passClicks[b]]_vars

\* C2: when no item pre-declared acceptance (neither in the last hover pass nor
\* in the saved hover event), the click dispatched on the release of B is
\* delivered first to a candidate of highest absolute Z among the items whose
\* shape contains the point where B was pressed.
C2_TopmostAtPressPointFirst ==
    [][\A b \in Buttons :
          (/\ Handles("release") /\ last'.button = b
           /\ NotesOf(out', "click") # << >>
           /\ passClicks[b] = None
           /\ (lastHoverEvent = NoEvent \/ lastHoverEvent[1].clickItems[b] = None))
              => LET first == NotesOf(out', "click")[1].item
                 IN /\ first \in ClickCandidates(pressed[b].pos)
                    /\ \A j \in ClickCandidates(pressed[b].pos) :
                          AbsoluteZ(first) >= AbsoluteZ(j)]_vars

\* C3: after a press of B that no item grabbed natively, as long as every move
\* made while B is held ends less than moveDistance from the press point and
\* less than minDragTime after the press, B is not among the dragging buttons,
\* and the release of B (no item holding the mouse) dispatches a click event
\* and no drag event.
C3_SmallMovesStayAClick ==
    [][\A b \in Buttons :
          /\ (b \in buttons' /\ pressed'[b].free /\ pressed'[b].calm /\ grabber' = None)
                => ~InSeq(b, dragButtons')
          /\ (/\ Handles("release") /\ last'.button = b
              /\ pressed[b].free /\ pressed[b].calm /\ grabber = None)
                => /\ NotesOf(out', "click") # << >>
                   /\ NotesOf(out', "drag") = << >>]_vars

\* C4: after a press of B that no item grabbed natively, the first move that
\* ends at moveDistance or more from the press point (no item holding the
\* mouse) delivers a drag event with start = True in that same move.
C4_FarMoveStartsDrag ==
    [][\A b \in Buttons :
          (/\ Handles("move")
           /\ b \in buttons /\ pressed[b].free /\ pressed[b].calm /\ grabber = None
           /\ Length(pointer' - pressed[b].pos) >= moveDistance)
              => \E n \in 1 .. Len(out') : out'[n].kind = "drag" /\ out'[n].start]_vars

\* C5: a move that takes the pointer from over the hovered item a to over the
\* item b (both with a hover handler and in the scene, their shapes disjoint)
\* gives a exactly one exit notification and b exactly one enter notification,
\* and gives no item both an enter and an exit notification.
C5_OneExitOneEnter ==
    [][\A a \in Items, b \in Items :
          (/\ Handles("move")
           /\ HasAttr(a, "hoverEvent") /\ a \in inScene
           /\ HasAttr(b, "hoverEvent") /\ b \in inScene
           /\ shape[a] \cap shape[b] = {}
           /\ pointer \in shape[a] /\ InSeq(a, hoverItems)
           /\ pointer' \in shape[b])
              => /\ Len(HoverNotesOf(out', a, FALSE, TRUE)) = 1
                 /\ Len(HoverNotesOf(out', b, TRUE, FALSE)) = 1
                 /\ \A i \in Items : \/ HoverNotesOf(out', i, TRUE, FALSE) = << >>
                                     \/ HoverNotesOf(out', i, FALSE, TRUE) = << >>]_vars

\* C9: after a mouse release event that leaves no button pressed, dragItem is
\* None, dragButtons and clickEvents are empty and lastDrag is None.
C9_ReleaseOfLastButtonResets ==
    (last.op = "release" /\ buttons = {})
        => /\ dragItem = None
           /\ dragButtons = << >>
           /\ clickEvents = << >>
           /\ lastDrag = NoEvent

\* C10: once a drag target is assigned it stays fixed: every drag event sent
\* while it is set, the final one included, is delivered to it and to no other
\* item, and it changes only in a step that leaves no button pressed.
C10_DragTargetFixed ==
    [][dragItem # None
          => /\ dragItem' # dragItem => buttons' = {}
             /\ \A n \in 1 .. Len(out') :
                   out'[n].kind = "drag" => out'[n].item = dragItem]_vars

\* C10 witness: the release of a dragging button, another button still held,
\* has just sent the final drag event to the drag target, which is kept.
C10_Witness ==
    /\ last.op = "release"
    /\ buttons # {}
    /\ dragItem # None
    /\ \E n \in 1 .. Len(out) :
          out[n].kind = "drag" /\ out[n].finish /\ out[n].item = dragItem

\* C11: the release of a button B whose press no item grabbed natively (no
\* item holding the mouse at the release) generates either drag events or one
\* click event, never both: if B was promoted to dragging, no click event is
\* dispatched; if it was not, a click event is dispatched and no drag event.
C11_DragOrOneClick ==
    [][\A b \in Buttons :
          (/\ Handles("release") /\ last'.button = b
           /\ pressed[b].free /\ grabber = None)
              => IF InSeq(b, dragButtons)
                 THEN NotesOf(out', "click") = << >>
                 ELSE /\ NotesOf(out', "click") # << >>
                      /\ NotesOf(out', "drag") = << >>]_vars

\* C12: a press of B that the host's native dispatch delivered to an item that
\* accepted it (a mouse grabber exists after the native press) records no
\* pending click event, and while B stays down after such a press no click or
\* drag event of B is dispatched.
C12_NativePressLeftAlone ==
    [][\A b \in Buttons :
          /\ (/\ Handles("press") \/ Handles("doubleclick")
              /\ last'.button = b
              /\ grabber' # None)
                => clickEvents' = clickEvents
          /\ (/\ nEvents' = nEvents + 1
              /\ b \in buttons /\ ~pressed[b].free)
                => \A n \in 1 .. Len(out') :
                      out'[n].kind \in {"click", "drag"} => out'[n].button # b]_vars

\* C12 witness: a button whose press an item grabbed natively is still down
\* after a move that took the pointer a drag's distance from the press point,
\* next to a pending click event of another button.
C12_Witness ==
    /\ last.op = "move"
    /\ clickEvents # << >>
    /\ \E b \in buttons :
          /\ ~pressed[b].free
          /\ grabber # None
          /\ Length(pointer - pressed[b].pos) >= moveDistance
          /\ \A n \in 1 .. Len(clickEvents) : clickEvents[n].button # b

\* C13: an exception raised inside an item's hover, click or drag handler
\* is caught at the dispatch call site: no scene mouse event method is left by
\* an exception.
C13_HandlerExceptionsCaught == ~last.raised

\* C14: an item that pre-declared acceptance for a button in the saved hover
\* event and has been removed from the scene since receives neither a click
\* nor a drag event.
C14_RemovedDeclarerGetsNothing ==
    [][\A i \in Items :
          (/\ nEvents' = nEvents + 1
           /\ lastHoverEvent # NoEvent
           /\ i \notin inScene
           /\ \E b \in Buttons : \/ lastHoverEvent[1].clickItems[b] = i
                                 \/ lastHoverEvent[1].dragItems[b] = i)
              => \A n \in 1 .. Len(out') :
                    out'[n].kind \in {"click", "drag"} => out'[n].item # i]_vars

\* Item i called acceptClicks(b) in the hover pass of the scene method that
\* has just run, and the call returned False: i was notified (enter or move),
\* its handler asks for b, and the pass did not record i for b.
RefusedClick(i, b) ==
    /\ b \in wantsClicks[i]
    /\ passClicks[b] # i
    /\ \E n \in 1 .. Len(out) :
          out[n].kind = "hover" /\ out[n].item = i /\ ~out[n].exit

\* C15: an item whose call to acceptClicks(B) on the last hover event returned
\* False does not receive the click event of B dispatched next (stated for the
\* click half of the claim).
C15_RefusedItemGetsNoClick ==
    [][\A i \in Items, b \in Buttons :
          (/\ Handles("release") /\ last'.button = b
           /\ RefusedClick(i, b))
              => \A n \in 1 .. Len(out') :
                    out'[n].kind = "click" => out'[n].item # i]_vars

\* The shape of item i lies within r pixels of the point p (the view shows the
\* scene at one pixel per unit).
WithinRadius(i, p, r) == \E x \in shape[i] : Length(x - p) <= r

\* C16: hit testing searches within the click radius around the event point:
\* after a mouse move every visible item of the scene with a hover handler
\* whose shape lies within clickRadius pixels of the pointer has been sent the
\* hover event of that move, the items containing the pointer first.
C16_NearItemsAreCandidates ==
    last.op = "move"
        => \A i \in inScene :
              (HasAttr(i, "hoverEvent") /\ isVisible[i]
               /\ WithinRadius(i, pointer, clickRadius))
                 => \E n \in 1 .. Len(out) :
                       /\ out[n].kind = "hover" /\ out[n].item = i /\ ~out[n].exit
                       /\ pointer \notin shape[i]
                             => \A m \in 1 .. Len(out) :
                                   (out[m].kind = "hover" /\ ~out[m].exit
                                    /\ pointer \in shape[out[m].item]) => m < n

\* C17: hover bindings are cleaned up when an item is removed from the scene:
\* in every state hoverItems contains only items that are in the scene.
C17_HoverItemsInScene == \A i \in SeqSet(hoverItems) : i \in inScene

(***************************************************************************)
(* Claims about the pixel vectors of GraphicsItem, checked under SpecPixel *)
(***************************************************************************)

\* C18: whenever the composed item-to-device transform has zero determinant
\* or the item has no hosting view, deviceTransform returns None and
\* pixelVectors returns (None, None) rather than raising.
C18_NoValueWhenDegenerate ==
    (/\ pvCall.fn = "pixelVectors"
     /\ \/ Det(Compose(sceneTransform, viewportTransform)) = 0
        \/ ~viewWidget)
        => /\ pvCall.dt = NoTransform
           /\ pvCall.result = NoValue

\* C19: a call of pixelVectors or pixelLength with an explicitly zero-length
\* direction vector raises an error, with or without a device transform.
C19_ZeroDirectionRaises ==
    (pvCall.fn # "none" /\ pvCall.direction = <<0, 0>>)
        => pvCall.result = Raised

\* C20: when a pixelVectors call missed both caches and computed its value,
\* an immediately repeated call with the same direction (the transform
\* unchanged) is answered by the per-item cache.
C20_RepeatAnsweredLocally ==
    [][(/\ pvCall.fn = "pixelVectors" /\ pvCall.by = "computed"
        /\ pvCall'.fn = "pixelVectors"
        /\ pvCall'.direction = pvCall.direction)
           => pvCall'.by = "local"]_vars

(***************************************************************************)
(* Claims about mapRectFromView, checked under SpecMapRect                 *)
(***************************************************************************)

\* C21 as stated: over any sequence of mapRectFromView calls each distinct
\* view transform is inverted at most once.
C21_InvertedAtMostOnce == \A k \in LRUKeys : inversions[k] <= 1

\* C21 amended: a call whose view transform has an entry in the shared cache
\* reuses the cached inverse and inverts nothing; a transform is inverted only
\* by a call that finds no entry for it, and that call leaves an entry.
C21_InvertedOnlyOnMiss ==
    [][\A k \in LRUKeys :
          /\ k \in DOMAIN lruDict => inversions'[k] = inversions[k]
          /\ inversions'[k] # inversions[k]
                => /\ inversions'[k] = inversions[k] + 1
                   /\ mapCall'.key = k
                   /\ k \in DOMAIN lruDict']_vars

\* C21 witness: a call has just reused the cached inverse of a transform that
\* was inverted once.
C21_Witness ==
    /\ mapCall.key \in LRUKeys
    /\ ~mapCall.inverted
    /\ inversions[mapCall.key] = 1


(***************************************************************************)
(* Claims on the view resolution of GraphicsItem                           *)
(***************************************************************************)
\* The view an item should resolve to in the current forest.
ExpectedView(i) ==
    IF \E a \in AncestorsIn(parentOf, i) : a \in ViewBoxes
    THEN CHOOSE a \in AncestorsIn(parentOf, i) :
            /\ a \in ViewBoxes
            /\ \A b \in AncestorsIn(parentOf, i) \cap ViewBoxes :
                  b = a \/ b \in AncestorsIn(parentOf, a)
    ELSE IF itemScene[i] /\ sceneViews >= 1 THEN ViewWidget
    ELSE None

ViewChangedStep(i) ==
    /\ viewCall'.op \in {"setParentItem", "addItem"}
    /\ viewCall' # viewCall
    /\ viewCall'.item = i
    /\ connectedView'[i] # connectedView[i]

\* C23: when the resolved view of an item changes from oldView to another
\* view, _updateView runs on every GraphicsItem descendant whose cached
\* view was oldView, and a descendant bound to an inner view keeps its
\* state.
C23_DescendantsOfOldViewReResolved ==
    [][\A i \in GraphicsItems :
          ViewChangedStep(i) =>
             \A d \in Descendants(parentOf', i) \cap GraphicsItems :
                /\ (connectedView[i] # None /\ viewBox[d] = connectedView[i])
                      => d \in viewCall'.updated
                /\ (viewBox[d] \in Descendants(parentOf', i) \cap ViewBoxes)
                      => /\ d \notin viewCall'.updated
                         /\ viewBox'[d] = viewBox[d]
                         /\ connectedView'[d] = connectedView[d]]_vars


(***************************************************************************)
(* Claims on addParentContextMenus                                         *)
(***************************************************************************)
\* The ancestor contributes exactly the one menu m.
OneMenu(c, m) == m \in QMenus /\ (c = Single(m) \/ c = List(<<m>>))

\* C24: for an item with two ancestors that contribute one menu each, the
\* menu holds the item's own entries, then one separator, then the menu of
\* the parent, then the menu of the grandparent.
C24_ParentMenusNearestFirst ==
    \A m1, m2 \in QMenus :
       (/\ menuCall.called
        /\ Len(menuAncestors) = 2
        /\ OneMenu(menuAncestors[1], m1)
        /\ OneMenu(menuAncestors[2], m2))
          => /\ ~menuCall.raised
             /\ menuCall.menu = menuOwn \o <<Separator, m1, m2>>

C24_Witness ==
    /\ menuCall.called
    /\ menuOwn = <<"own1", "own2">>
    /\ menuAncestors = <<Single("menu1"), Single("menu2")>>
    /\ menuCall.menu = <<"own1", "own2", Separator, "menu1", "menu2">>

\* The ancestor returns something that is not None, not a menu, not an
\* action and not a list of menus and actions.
UnknownContribution(c) ==
    /\ c.has
    /\ IF c.isList
       THEN \E k \in 1 .. Len(c.objs) : c.objs[k] \notin QMenus \cup QActions
       ELSE c.objs[1] \notin QMenus \cup QActions \cup {"None"}

\* C25: if an ancestor contributes an object that is neither a menu nor an
\* action nor a list of these, addParentContextMenus raises.
C25_UnknownObjectRaises ==
    (/\ menuCall.called
     /\ \E k \in 1 .. Len(menuAncestors) : UnknownContribution(menuAncestors[k]))
        => menuCall.raised


(***************************************************************************)
(* Claims on the construction of LRUCache                                  *)
(***************************************************************************)
\* C26: LRUCache(maxSize, resizeTo) with resizeTo >= maxSize raises in
\* __init__ and leaves no cache: a cache exists only with
\* resizeTo < maxSize, and after a rejected construction there is nothing
\* to operate on.
C26_NoCacheUnlessResizeToBelowMaxSize ==
    /\ lruState = "ok" => resizeTo < maxSize
    /\ lruState = "rejected" => (lruDict = << >> /\ lruOp = NoLruOp /\ lruNextTime = 0)

C26_Witness == lruState = "rejected" /\ lruDict = << >>


(***************************************************************************)
(* Claims on PlotArea                                                      *)
(***************************************************************************)
\* C27: once the legend exists, its entries are exactly the plot items of
\* the area, on either y axis, that have a name: each of them once and
\* nothing else.
C27_LegendIsNamedPlotItems ==
    legend => \A o \in AreaObjects :
                 legendItems[o] =
                    IF o \in (plotItems \cup plotItems2) \cap NamedPlotItems
                    THEN 1 ELSE 0

\* The legend shows the named item of the y2 axis and not the unnamed item
\* of the primary axis.
C27_Witness ==
    /\ legend
    /\ "curve" \in plotItems2
    /\ "errorbar" \in plotItems
    /\ legendItems["curve"] = 1
    /\ legendItems["errorbar"] = 0

\* C28: every item of the primary plot set has the log-X and log-Y modes of
\* the Log X and Log Y checkboxes, and every item of the y2 axis has the
\* log-X mode of the Log X checkbox.
C28_ItemsFollowLogMode ==
    /\ \A i \in plotItems : logXMode[i] = logXcb /\ logYMode[i] = logYcb
    /\ \A i \in plotItems2 : logXMode[i] = logXcb

\* The annotation items after the last setAnnotationList.
AnnotationsConsistent ==
    /\ Len(annotationItems) <= MAX_ANNOTATION_ITEMS
    /\ Len(annotationVisible) = Len(annotationItems)
    /\ nVisAnnotationItems <= Len(annotationItems)
    /\ \A k \in 1 .. Len(annotationItems) :
          annotationVisible[k] <=> k <= nVisAnnotationItems
    /\ annotationItems # << >> => nVisAnnotationItems = Min(lastValues, MAX_ANNOTATION_ITEMS)

\* C29: exactly the first n annotation items are visible, n being the
\* number of values of the last setAnnotationList capped at
\* _MAX_ANNOTATION_ITEMS and equal to _n_vis_annotation_items; the pool has
\* at most _MAX_ANNOTATION_ITEMS items and only removeAllItems, which
\* empties it, makes it smaller.
C29_FirstNAnnotationsVisible ==
    [][/\ AnnotationsConsistent'
       /\ lastValues' # lastValues => nVisAnnotationItems' = Min(lastValues', MAX_ANNOTATION_ITEMS)
       /\ \/ Len(annotationItems') >= Len(annotationItems)
          \/ annotationItems' = << >> /\ areaItems' = {}]_vars

\* A call with 2 values after one with 11: the pool keeps its 10 items and
\* shows the first 2.
C29_Witness ==
    /\ Len(annotationItems) = MAX_ANNOTATION_ITEMS
    /\ lastValues = 2
    /\ nVisAnnotationItems = 2
    /\ annotationVisible[2]
    /\ ~annotationVisible[3]

\* C30: every item the area tracks is held once by one ViewBox, and the
\* sizes of the addedItems of the two ViewBoxes sum to the size of the
\* item set.
C30_ItemsHeldByOneViewBox ==
    /\ \A o \in areaItems : vbAddedItems[o] + vb2AddedItems[o] = 1
    /\ ListLen(vbAddedItems) + ListLen(vb2AddedItems) = Cardinality(areaItems)


\* C40: after _updateView ran on an item whose view changed, every
\* GraphicsItem of its subtree is connected to the view getViewBox returns
\* for it.
C40_SubtreeConnectedToResolvedView ==
    [][\A i \in GraphicsItems :
          ViewChangedStep(i) =>
             \A d \in (Descendants(parentOf', i) \cup {i}) \cap GraphicsItems :
                connectedView'[d]
                   = getViewBox(ViewState, parentOf, itemScene, d).v']_vars


\* C31: removeItem on an annotation item raises RuntimeError and leaves the
\* item set, both plot-item sets, the annotation list, the number of
\* visible annotations and the legend as they were.
C31_AnnotationItemNotRemovable ==
    [][\A k \in 1 .. Len(annotationItems) :
          (removeCall' # removeCall /\ removeCall'.item = annotationItems[k])
             => /\ removeCall'.raised
                /\ UNCHANGED <<areaItems, plotItems, plotItems2, annotationItems,
                               annotationVisible, nVisAnnotationItems, legend,
                               legendItems>>]_vars

\* The call was made on a hidden annotation item while the area holds plot
\* items and a legend.
C31_Witness ==
    /\ removeCall.raised
    /\ removeCall.item = "text2"
    /\ "text2" \in areaItems
    /\ nVisAnnotationItems = 0
    /\ legend
    /\ plotItems # {}

\* The hover-capable candidates of a hover pass at point p: the items of the
\* scene with a hover handler whose shape contains p.
HoverCandidates(p) ==
    {i \in inScene : HasAttr(i, "hoverEvent") /\ isVisible[i] /\ p \in shape[i]}

\* The step holds a hover pass over the items near the pointer that ran to its
\* end: every move and release, and a press at a point other than the one of
\* the saved hover event.
CompletedHoverPass ==
    /\ ~last'.raised
    /\ \/ Handles("move")
       \/ Handles("release")
       \/ /\ Handles("press") /\ grabber' = None
          /\ lastHoverEvent # NoEvent /\ pointer # lastHoverEvent[1].scenePos

\* C32: after every completed hover pass the hovered items are exactly the
\* hover-capable candidates of that pass; each item hovered before and no longer
\* a candidate has been dropped, with one exit notification if it is still in
\* the scene; after a leave event with no active drag no item is hovered.
C32_HoveredAreThePassCandidates ==
    [][/\ CompletedHoverPass
          => /\ SeqSet(hoverItems') = HoverCandidates(pointer')
             /\ \A i \in (SeqSet(hoverItems) \ HoverCandidates(pointer')) \cap inScene :
                   Len(HoverNotesOf(out', i, FALSE, TRUE)) = 1
       /\ (Handles("leave") /\ dragButtons = << >> /\ ~last'.raised)
          => /\ hoverItems' = << >>
             /\ \A i \in SeqSet(hoverItems) \cap inScene :
                   Len(HoverNotesOf(out', i, FALSE, TRUE)) = 1]_vars

\* A move has just taken the pointer off B: the pass gave B its exit
\* notification and hovers C alone, and A has left the scene.
C32_Witness ==
    /\ last.op = "move" /\ ~last.raised
    /\ "A" \notin inScene
    /\ pointer = 5
    /\ SeqSet(hoverItems) = {"C"}
    /\ \E n \in 1 .. Len(out) : out[n].kind = "hover" /\ out[n].exit /\ out[n].item = "B"

\* C33: for a held button B whose press the scene recorded, the pending click
\* event of B (the first event of B in clickEvents, which mouseMoveEvent
\* measures against and mouseReleaseEvent dispatches) is the event of B's most
\* recent press, also after B was pressed, dragged and released earlier while
\* another button stayed held.
C33_PendingClickIsLatestPress ==
    \A b \in buttons :
       pressed[b].free
          => /\ ClickEventsOf(b) # << >>
             /\ ClickEventsOf(b)[1].scenePos = pressed[b].pos
             /\ ClickEventsOf(b)[1].time = pressed[b].time

\* The drag notifications of one step's calls.
DragNotes(o) == NotesOf(o, "drag")

\* C34: every drag event carries as its originating click event the press event
\* of the button being dragged: a drag event sent on a move carries the press
\* of a dragging button, and the final drag event sent on the release of a
\* dragging button carries the press of the released button, also when several
\* buttons are held and a button other than the first-pressed one is dragging.
C34_DragEventOfDraggedButton ==
    [][/\ Handles("move")
          => \A n \in 1 .. Len(DragNotes(out')) :
                \E k \in 1 .. Len(dragButtons') : dragButtons'[k] = DragNotes(out')[n].button
       /\ Handles("release")
          => \A n \in 1 .. Len(DragNotes(out')) :
                DragNotes(out')[n].button = last'.button]_vars

\* C35: a move to the very point where a held, not yet dragging button was
\* pressed (distance 0) does not promote that button to dragging, however long
\* the button has been held.
C35_ZeroDistanceNeverPromotes ==
    [][\A b \in buttons :
          (/\ Handles("move")
           /\ pressed[b].free
           /\ pointer' = pressed[b].pos
           /\ \A k \in 1 .. Len(dragButtons) : dragButtons[k] # b)
              => \A k \in 1 .. Len(dragButtons') : dragButtons'[k] # b]_vars

\* The same for a button whose pending click event is the one of its latest
\* press.
C35_ZeroDistanceOfFreshPress ==
    [][\A b \in buttons :
          (/\ Handles("move")
           /\ pressed[b].free
           /\ pointer' = pressed[b].pos
           /\ ClickEventsOf(b) # << >>
           /\ ClickEventsOf(b)[1].scenePos = pressed[b].pos
           /\ \A k \in 1 .. Len(dragButtons) : dragButtons[k] # b)
              => \A k \in 1 .. Len(dragButtons') : dragButtons'[k] # b]_vars

\* C36: while a drag is in progress (a drag target item is set), the click
\* event dispatched on the release of another button is delivered to the drag
\* target and to no other item.
C36_ClickDuringDragGoesToDragTarget ==
    [][(Handles("release") /\ dragItem # None)
          => \A n \in 1 .. Len(NotesOf(out', "click")) :
                NotesOf(out', "click")[n].item = dragItem]_vars

\* C37: a drag event goes to an item other than the current drag target only
\* on the initial move of a drag (no button dragging before the move, the event
\* marked as start); if that offer leaves the drag without a target, no item
\* receives the later drag events of the drag, the final one included.
C37_OfferedOnInitialMoveOnly ==
    [][\A n \in 1 .. Len(DragNotes(out')) :
          LET d == DragNotes(out')[n]
          IN IF dragItem # None
             THEN d.item = dragItem
             ELSE /\ Handles("move")
                  /\ dragButtons = << >>
                  /\ d.start /\ ~d.finish]_vars

\* Right is dragging, the initial offer found no taker, and the move just
\* handled was delivered to no item.
C37_Witness ==
    /\ last.op = "move" /\ ~last.raised
    /\ dragButtons = <<"Right">>
    /\ buttons = {"Right"}
    /\ dragItem = None
    /\ lastDrag # NoEvent
    /\ DragNotes(out) = << >>
    /\ inScene = Items

\* The candidates that a click offered in descending absolute Z reaches: those
\* with no accepting candidate above them.
OfferedUntilAccepted(cands) ==
    {c \in cands : \A a \in cands \cap acceptsClick :
                      a = c \/ AbsoluteZ(a) < AbsoluteZ(c)}

\* C38: when no item pre-declared acceptance, the click dispatched on a release
\* is offered to the visible, enabled candidates with a click handler in
\* descending absolute Z and stops at the first one that accepts: no candidate
\* below an accepting one receives it, and no invisible or disabled item does.
C38_ClickOfferedByZUntilAccepted ==
    [][\A b \in Buttons :
          (/\ Handles("release") /\ last'.button = b
           /\ grabber = None
           /\ \A k \in 1 .. Len(dragButtons) : dragButtons[k] # b
           /\ ClickEventsOf(b) # << >>
           /\ passClicks[b] = None
           /\ (lastHoverEvent = NoEvent \/ lastHoverEvent[1].clickItems[b] = None))
              => LET notes == NotesOf(out', "click")
                     cands == ClickCandidates(ClickEventsOf(b)[1].scenePos)
                 IN /\ \A n \in 1 .. Len(notes) :
                          isVisible[notes[n].item] /\ isEnabled[notes[n].item]
                    /\ {notes[n].item : n \in 1 .. Len(notes)} = OfferedUntilAccepted(cands)
                    /\ \A n, m \in 1 .. Len(notes) :
                          n < m => AbsoluteZ(notes[n].item) > AbsoluteZ(notes[m].item)]_vars

\* The right button was pressed and released at x = 0, under the disabled item
\* D: the click went to B, which ignored it, and then to A, which accepted it.
C38_Witness ==
    /\ last.op = "release" /\ last.button = "Right"
    /\ "D" \in inScene
    /\ Len(NotesOf(out, "click")) = 2
    /\ NotesOf(out, "click")[1].item = "B"
    /\ NotesOf(out, "click")[2].item = "A"

\* C39: in every reachable state of the dispatcher each button appears in
\* dragButtons at most once and has a pending click event in clickEvents, so
\* clickEvents is not empty whenever a button is dragging, i.e. whenever
\* sendDragEvent reads clickEvents[0].
C39_DraggingButtonsHavePendingClick ==
    /\ \A k, l \in 1 .. Len(dragButtons) : dragButtons[k] = dragButtons[l] => k = l
    /\ \A k \in 1 .. Len(dragButtons) :
          \E n \in 1 .. Len(clickEvents) : clickEvents[n].button = dragButtons[k]
    /\ dragButtons # << >> => clickEvents # << >>

\* Two buttons are dragging; the one pressed first has been released and
\* pressed again, so it has two pending click events.
C39_Witness ==
    /\ Len(dragButtons) = 2
    /\ Len(clickEvents) = 3
    /\ last.op = "move" /\ ~last.raised
    /\ DragNotes(out) # << >>

====
